---- MODULE Spec2Model ----
(***************************************************************************)
(* RomanAI Spacetime Engine v3.0: SpacetimeState, MemoryStore and the      *)
(* turn of RomanAISpacetimeEngine.generate_reply.                          *)
(*                                                                         *)
(* Numbers.  A Python float is a record [kind, v]: kind "num" with v the   *)
(* value in hundredths (importance) or in 1/Unit (state scalars), kind     *)
(* "nan" for float('nan'), kind "str" for a JSON value that is no number.  *)
(* Strings are sequences of one-character strings; the literal             *)
(* ROMANAI_FINAL is the one-element sequence marker.                       *)
(***************************************************************************)
EXTENDS Integers, Sequences, FiniteSets, TLC

VARIABLES
    file,            \* memory.jsonl: the sequence of its lines
    short_term,      \* MemoryStore.short_term  (deque, maxlen max_short)
    mid_term,        \* MemoryStore.mid_term    (deque, maxlen max_mid)
    long_term,       \* MemoryStore.long_term   (list)
    clock,           \* datetime.utcnow(): the next timestamp
    state,           \* RomanAISpacetimeEngine.state (SpacetimeState)
    dialog_history,  \* RomanAISpacetimeEngine.dialog_history (deque, maxlen 64)
    call,            \* the last call made: its name, arguments and result
    routed,          \* per bounded tier, every entry this store has routed to it
    flags,           \* the engine's enable_recursive, enable_multi_agent, enable_self_eval
    steps,           \* number of calls made since construction
    thinking_scriptor, \* RomanAILabMaster.thinking_scriptor
    thinking_master,   \* RomanAILabMaster.thinking_master
    scriptor_llm,    \* RomanAILabMaster.scriptor_llm: a GGUF model is loaded
    master_llm,      \* RomanAILabMaster.master_llm: a GGUF model is loaded
    helper_router,   \* HelperRouter: per backend, whether its helper module loaded
    workers,         \* the threads _send has started that have not yet posted an answer
    after_queue,     \* the _finish_turn callbacks posted with after(0, ...), in order
    scriptor_text,   \* what the scriptor pane shows, line by line
    master_text,     \* what the master pane shows, line by line
    reply,           \* the last HelperRouter.run call and what it returned
    memory_log,      \* the lines _send and _finish_turn append to MEMORY_LOG
    cfg,             \* cfg["backend"]: the backend last used on each side
    sends,           \* every non-blank _send so far: its side, text and what the gate saw
    code_text        \* the code editor's buffer (master.code_text)

engineVars == <<file, short_term, mid_term, long_term, clock, state, dialog_history,
                call, routed, flags>>

labVars == <<thinking_scriptor, thinking_master, scriptor_llm, master_llm, helper_router,
             workers, after_queue, scriptor_text, master_text, reply, memory_log,
             cfg, sends, code_text>>

vars == <<engineVars, steps, labVars>>

\* ------------------------------------------------------------------ bounds

max_short == 2
max_mid == 2
MaxSteps == 3

\* ------------------------------------------------------------------ floats

F(n) == [kind |-> "num", v |-> n]
NaN == [kind |-> "nan", v |-> 0]
NotNumber == [kind |-> "str", v |-> 0]

IsNum(a) == a.kind = "num"

\* Python's a < b and a >= b on floats: every comparison with nan is False.
FLt(a, b) == IsNum(a) /\ IsNum(b) /\ a.v < b.v
FGe(a, b) == IsNum(a) /\ IsNum(b) /\ a.v >= b.v

\* Python's min(a, b) and max(a, b): the first argument unless the second is
\* strictly smaller (larger).
FMin(a, b) == IF FLt(b, a) THEN b ELSE a
FMax(a, b) == IF FLt(a, b) THEN b ELSE a

\* float(max(0.0, min(1.0, importance))), in hundredths.
ClampImportance(importance) == FMax(F(0), FMin(F(100), importance))

\* ------------------------------------------------------------ RomanAILabMaster

\* The keys of HelperRouter.run's table, and a router none of whose helper
\* modules could be imported.
TableKeys == {"scriptor", "master", "micro", "patcher", "multimodel", "rewriter"}

NoHelpers == [key \in TableKeys |-> FALSE]

\* DEFAULT_CONFIG["backend"].
DefaultBackends == [scriptor |-> "Scriptor (GGUF)", master |-> "Master (GGUF)"]

\* RomanAILabMaster.__init__ apart from the models and helpers it finds: no
\* turn in flight, empty panes.
LabIdle ==
    /\ thinking_scriptor = FALSE
    /\ thinking_master = FALSE
    /\ workers = {}
    /\ after_queue = <<>>
    /\ scriptor_text = <<>>
    /\ master_text = <<>>
    /\ reply = [op |-> "none"]
    /\ memory_log = <<>>
    /\ cfg = DefaultBackends
    /\ sends = <<>>
    /\ code_text = <<>>

\* RomanAILabMaster.__init__ where no GGUF model and no helper module is found.
LabInit ==
    /\ LabIdle
    /\ scriptor_llm = FALSE
    /\ master_llm = FALSE
    /\ helper_router = NoHelpers

\* ------------------------------------------------------------ MemoryStore

ItemKeys == {"ts", "role", "content", "importance"}

MemoryItem(ts, role, content, importance) ==
    [ts |-> ts, role |-> role, content |-> content, importance |-> importance]

\* Mutant of DequeAppend: a full deque refuses the new entry and keeps the oldest.
DequeAppendKeepOldest(q, x, n) == IF Len(q) >= n THEN q ELSE Append(q, x)

\* deque(maxlen=n).append(x)
DequeAppend(q, x, n) ==
    LET s == Append(q, x)
    IN  IF Len(s) > n THEN SubSeq(s, Len(s) - n + 1, Len(s)) ELSE s

\* json.dumps(item.to_json()) + "\n": one object with the four fields.
JsonLine(item) ==
    [kind |-> "obj", keys |-> ItemKeys, ts |-> item.ts, role |-> item.role,
     content |-> item.content, importance |-> item.importance]

\* json.loads(line) followed by MemoryItem(**raw) succeeds exactly on an
\* object with the four fields and no other.
Parses(line) == line.kind = "obj" /\ line.keys = ItemKeys

\* The tier a replayed line goes to; "skip" when the line is blank, is not
\* JSON, has the wrong fields, or the comparison item.importance >= 0.7
\* raises (importance is no number).
LoadTier(line) ==
    IF ~Parses(line) THEN "skip"
    ELSE IF line.role = "summary" THEN "mid_term"
    ELSE IF line.importance.kind = "str" THEN "skip"
    ELSE IF FGe(line.importance, F(70)) THEN "long_term"
    ELSE "short_term"

Tiers(s, m, l) == [short_term |-> s, mid_term |-> m, long_term |-> l]

EmptyTiers == Tiers(<<>>, <<>>, <<>>)

\* The capacities of MemoryStore() when none are given.
DefaultMaxShort == 32

DefaultMaxMid == 64

\* Appends item to the named tier of a store of capacities ms and mm, evicting
\* the oldest of a full deque.
PlaceWith(t, tier, item, ms, mm) ==
    CASE tier = "mid_term" ->
           [t EXCEPT !.mid_term = DequeAppend(t.mid_term, item, mm)]
      [] tier = "long_term" ->
           [t EXCEPT !.long_term = Append(t.long_term, item)]
      [] tier = "short_term" ->
           [t EXCEPT !.short_term = DequeAppend(t.short_term, item, ms)]
      [] OTHER -> t

Place(t, tier, item) == PlaceWith(t, tier, item, max_short, max_mid)

RECURSIVE LoadWith(_, _, _, _)
LoadWith(t, lines, ms, mm) ==
    IF lines = <<>> THEN t
    ELSE LET line == Head(lines)
             item == MemoryItem(line.ts, line.role, line.content, line.importance)
         IN  LoadWith(PlaceWith(t, LoadTier(line), item, ms, mm), Tail(lines), ms, mm)

LoadFrom(t, lines) == LoadWith(t, lines, max_short, max_mid)

\* MemoryStore._load_from_disk on a fresh store.
LoadFromDisk(lines) == LoadFrom(EmptyTiers, lines)

\* Mutant of AddTier: the importance test comes before the role test.
AddTierImportanceFirst(role, importance) ==
    IF FGe(importance, F(70)) THEN "long_term"
    ELSE IF role = "summary" THEN "mid_term"
    ELSE "short_term"

\* The branch MemoryStore.add takes: it tests the importance it was given,
\* not the clamped one it stores.
AddTier(role, importance) ==
    IF role = "summary" THEN "mid_term"
    ELSE IF FGe(importance, F(70)) THEN "long_term"
    ELSE "short_term"

\* Mutant of AppendDisk: the log is opened for writing, not for appending.
AppendDiskRewrite(lines, item, disk_ok) ==
    IF disk_ok THEN <<JsonLine(item)>> ELSE lines

\* _append_disk: the line is appended unless the write raises (swallowed).
AppendDisk(lines, item, disk_ok) ==
    IF disk_ok THEN Append(lines, JsonLine(item)) ELSE lines

LiveTiers == Tiers(short_term, mid_term, long_term)

\* The entries of a log that replay routes to the named tier, in file order.
RoutedBy(lines, tier) ==
    LET hits == SelectSeq(lines, LAMBDA line : LoadTier(line) = tier)
    IN  [i \in 1..Len(hits) |->
            MemoryItem(hits[i].ts, hits[i].role, hits[i].content, hits[i].importance)]

RoutedFrom(lines) ==
    [short_term |-> RoutedBy(lines, "short_term"), mid_term |-> RoutedBy(lines, "mid_term")]

\* The store as one value, and the variables set from such a value.
Mem ==
    [file |-> file, short_term |-> short_term, mid_term |-> mid_term,
     long_term |-> long_term, clock |-> clock, routed |-> routed]

SetMem(m) ==
    /\ file' = m.file
    /\ short_term' = m.short_term
    /\ mid_term' = m.mid_term
    /\ long_term' = m.long_term
    /\ clock' = m.clock
    /\ routed' = m.routed

\* MemoryStore.add(role, content, importance) on store m at time m.clock.
StoreAdd(m, role, content, importance, disk_ok) ==
    LET item == MemoryItem(m.clock, role, content, ClampImportance(importance))
        tier == AddTier(role, importance)
        t    == Place(Tiers(m.short_term, m.mid_term, m.long_term), tier, item)
    IN  [file |-> AppendDisk(m.file, item, disk_ok),
         short_term |-> t.short_term,
         mid_term |-> t.mid_term,
         long_term |-> t.long_term,
         clock |-> m.clock + 1,
         routed |-> IF tier \in DOMAIN m.routed
                    THEN [m.routed EXCEPT ![tier] = Append(@, item)]
                    ELSE m.routed]

\* promote_summary(text, weight): add("summary", text, max(weight, 0.5)).
StorePromoteSummary(m, text, weight, disk_ok) ==
    StoreAdd(m, "summary", text, FMax(weight, F(50)), disk_ok)

\* What the model keeps of an add: its arguments, the entry made, the branch taken.
AddCall(op, role, given, importance, disk_ok) ==
    [op |-> op, role |-> role, given |-> given,
     item |-> MemoryItem(clock, role, <<"a">>, ClampImportance(importance)),
     tier |-> AddTier(role, importance),
     disk_ok |-> disk_ok, clean |-> call.clean /\ disk_ok]

Roles == {"user", "summary"}
Importances == {F(-50), F(70), F(150), NaN}
Weights == {F(30), F(90), NaN}

Add ==
    /\ steps < MaxSteps
    /\ \E role \in Roles, importance \in Importances, disk_ok \in BOOLEAN :
          /\ SetMem(StoreAdd(Mem, role, <<"a">>, importance, disk_ok))
          /\ call' = AddCall("add", role, importance, importance, disk_ok)
    /\ steps' = steps + 1
    /\ UNCHANGED <<state, dialog_history, flags>>
    /\ UNCHANGED labVars

PromoteSummary ==
    /\ steps < MaxSteps
    /\ \E weight \in Weights, disk_ok \in BOOLEAN :
          /\ SetMem(StorePromoteSummary(Mem, <<"a">>, weight, disk_ok))
          /\ call' = AddCall("promote_summary", "summary", weight,
                             FMax(weight, F(50)), disk_ok)
    /\ steps' = steps + 1
    /\ UNCHANGED <<state, dialog_history, flags>>
    /\ UNCHANGED labVars

\* A fresh MemoryStore on the same directory: MemoryStore.__init__.
Reopen ==
    /\ LET t == LoadFromDisk(file)
       IN  /\ short_term' = t.short_term
           /\ mid_term' = t.mid_term
           /\ long_term' = t.long_term
    /\ routed' = RoutedFrom(file)
    /\ call' = [op |-> "reopen", clean |-> TRUE]
    /\ UNCHANGED <<file, clock, state, dialog_history, flags, steps>>
    /\ UNCHANGED labVars

\* Log lines a store may find at start-up.
Line(ts, role, importance) ==
    [kind |-> "obj", keys |-> ItemKeys, ts |-> ts, role |-> role,
     content |-> <<"a">>, importance |-> importance]

Malformed(kind, keys) ==
    [kind |-> kind, keys |-> keys, ts |-> 0, role |-> "user",
     content |-> <<"a">>, importance |-> F(0)]

InitFiles ==
    { <<>>,
      <<Line(1, "user", F(40)), Line(2, "user", F(150)), Line(3, "summary", F(70)),
        Line(4, "user", NaN)>>,
      <<Malformed("blank", {}), Line(2, "user", NotNumber),
        Malformed("obj", {"ts", "role", "content"}),
        Malformed("garbage", {}), Malformed("obj", ItemKeys \cup {"tier"}),
        Line(3, "summary", NotNumber), Line(4, "user", F(20)), Line(5, "user", F(30))>> }

\* MemoryStore.__init__ on a directory whose log holds lines.
StoreInit(lines) ==
    /\ file = lines
    /\ short_term = LoadFromDisk(lines).short_term
    /\ mid_term = LoadFromDisk(lines).mid_term
    /\ long_term = LoadFromDisk(lines).long_term
    /\ routed = RoutedFrom(lines)
    /\ clock = 10

\* SpacetimeState(): the dataclass defaults, in 1/Unit.
DefaultState ==
    [w |-> 5500, x |-> 5500, y |-> 6000, z |-> 6200, energy |-> 8500, coherence |-> 8000]

\* RomanAISpacetimeEngine(): the constructor defaults.
DefaultFlags ==
    [enable_recursive |-> TRUE, enable_multi_agent |-> TRUE, enable_self_eval |-> TRUE]

Init ==
    /\ \E lines \in InitFiles : StoreInit(lines)
    /\ state = DefaultState
    /\ dialog_history = <<>>
    /\ flags = DefaultFlags
    /\ call = [op |-> "init", clean |-> TRUE]
    /\ steps = 0
    /\ LabInit

Next == Add \/ PromoteSummary \/ Reopen

Spec == Init /\ [][Next]_vars

\* The conditions MemoryStore.__init__ can find on disk: the storage directory
\* exists, can be created, cannot be created (a file is in the way, or the
\* parent is not writable) or exists read-only; the log is missing, readable,
\* or there but not readable. A directory that does not exist yet holds no log.
FsConditions ==
    {fs \in [dir : {"exists", "creatable", "uncreatable", "read_only"},
             log : {"missing", "readable", "unreadable"}] :
        fs.dir \in {"creatable", "uncreatable"} => fs.log = "missing"}

\* The tiers after __init__: base_dir.mkdir is outside any try; the log is
\* replayed when it exists and opens, otherwise the tiers stay empty.
ConstructTiers(fs, lines) ==
    IF fs.log = "readable" THEN LoadFromDisk(lines) ELSE EmptyTiers

\* MemoryStore(base_dir) under the condition fs; the log on disk is file.
Construct ==
    /\ \E fs \in FsConditions :
          /\ fs.log = "missing" => file = <<>>
          /\ IF fs.dir = "uncreatable"
             THEN /\ call' = [op |-> "construct", fs |-> fs, result |-> "raises",
                              clean |-> FALSE]
                  /\ UNCHANGED <<short_term, mid_term, long_term, routed>>
             ELSE /\ short_term' = ConstructTiers(fs, file).short_term
                  /\ mid_term' = ConstructTiers(fs, file).mid_term
                  /\ long_term' = ConstructTiers(fs, file).long_term
                  /\ routed' = IF fs.log = "readable" THEN RoutedFrom(file)
                               ELSE RoutedFrom(<<>>)
                  /\ call' = [op |-> "construct", fs |-> fs, result |-> "store",
                              clean |-> fs.log # "unreadable"]
    /\ UNCHANGED <<file, clock, state, dialog_history, flags, steps>>
    /\ UNCHANGED labVars

\* A store object exists: the last constructor call returned one.
Constructed == call.op # "start" /\ ~(call.op = "construct" /\ call.result = "raises")

\* add and promote_summary on the store constructed.
AddToStore == Constructed /\ Add

PromoteToStore == Constructed /\ PromoteSummary

\* Before any store is constructed: a log on disk, or none.
InitOpen ==
    /\ file \in InitFiles
    /\ short_term = <<>> /\ mid_term = <<>> /\ long_term = <<>>
    /\ routed = RoutedFrom(<<>>)
    /\ clock = 10
    /\ state = DefaultState
    /\ dialog_history = <<>>
    /\ flags = DefaultFlags
    /\ call = [op |-> "start", clean |-> TRUE]
    /\ steps = 0
    /\ LabInit

NextOpen == Construct \/ AddToStore \/ PromoteToStore

SpecOpen == InitOpen /\ [][NextOpen]_vars

\* ------------------------------------------------------------ MemoryStore: claims

IsAddCall(c) == c.op \in {"add", "promote_summary"}

LastN(s, n) == IF Len(s) > n THEN SubSeq(s, Len(s) - n + 1, Len(s)) ELSE s

\* C1: every add places the new entry in exactly one tier: role 'summary' in
\* mid_term whatever the importance, otherwise an importance >= 0.7 in
\* long_term, otherwise short_term; promote_summary(text, weight) stores a
\* 'summary' entry of importance max(weight, 0.5), clamped, in mid_term, and
\* the two other tiers are left as they were.
C1_RouteExactlyOneTier ==
    [][ (steps' = steps + 1 /\ IsAddCall(call')) =>
        LET c   == call'
            big == c.given.kind = "num" /\ c.given.v >= 70
        IN  /\ c.op = "promote_summary" => c.role = "summary"
            /\ c.op = "promote_summary" /\ c.given.kind = "num" =>
                  c.item.importance =
                      F(IF c.given.v < 50 THEN 50 ELSE IF c.given.v > 100 THEN 100 ELSE c.given.v)
            /\ c.role = "summary" =>
                  /\ mid_term' = LastN(Append(mid_term, c.item), max_mid)
                  /\ short_term' = short_term /\ long_term' = long_term
            /\ c.role # "summary" /\ big =>
                  /\ long_term' = Append(long_term, c.item)
                  /\ short_term' = short_term /\ mid_term' = mid_term
            /\ c.role # "summary" /\ ~big =>
                  /\ short_term' = LastN(Append(short_term, c.item), max_short)
                  /\ mid_term' = mid_term /\ long_term' = long_term ]_vars

\* C1 witness: promote_summary with weight 0.9 (>= 0.7) has put its entry at
\* the tail of mid_term.
C1_Witness ==
    /\ call.op = "promote_summary" /\ call.given = F(90)
    /\ mid_term # <<>> /\ mid_term[Len(mid_term)] = call.item
    /\ call.item.importance = F(90)

\* C2: while every append has reached the log, a fresh MemoryStore on the same
\* log file holds the same short_term, mid_term and long_term as the live store.
C2_ReplayEqualsLive == call.clean => LoadFromDisk(file) = LiveTiers

\* C3: an entry written by add is found again by a fresh MemoryStore on the same
\* log, with the same ts, role, content and importance, at the tail of the tier
\* the live add chose.
C3_RoundTrip ==
    (IsAddCall(call) /\ call.disk_ok) =>
        LET t == LoadFromDisk(file)[call.tier]
        IN  t # <<>> /\ t[Len(t)] = call.item

\* C4: a bounded tier holds exactly the last max_short (max_mid) of the entries
\* routed to it, by replay or by add, in insertion order.
C4_EvictionOrder ==
    /\ short_term = LastN(routed.short_term, max_short)
    /\ mid_term = LastN(routed.mid_term, max_mid)

\* C4 witness: more entries than short_term holds were routed to it, the last of
\* them by an add, while mid_term received some too.
C4_Witness ==
    /\ Len(routed.short_term) > max_short
    /\ IsAddCall(call) /\ call.tier = "short_term"
    /\ Len(routed.mid_term) > 0

InUnit(imp) == imp.kind = "num" /\ 0 <= imp.v /\ imp.v <= 100

\* C5: in every state of a MemoryStore the bounded tiers respect their
\* capacity, mid_term holds only summaries, long_term only non-summaries of
\* importance >= 0.7, short_term only non-summaries of importance < 0.7, and
\* every stored importance lies in [0,1].
C5_TierInvariant ==
    /\ Len(short_term) <= max_short
    /\ Len(mid_term) <= max_mid
    /\ \A i \in 1..Len(mid_term) :
          mid_term[i].role = "summary" /\ InUnit(mid_term[i].importance)
    /\ \A i \in 1..Len(long_term) :
          /\ long_term[i].role # "summary"
          /\ InUnit(long_term[i].importance) /\ long_term[i].importance.v >= 70
    /\ \A i \in 1..Len(short_term) :
          /\ short_term[i].role # "summary"
          /\ InUnit(short_term[i].importance) /\ short_term[i].importance.v < 70

\* C15: constructing a MemoryStore never raises and, when the log is missing
\* or unreadable or the directory cannot be created or written, gives a store
\* with empty tiers.
C15_ConstructNeverRaises ==
    call.op = "construct" =>
        /\ call.result = "store"
        /\ call.fs.log # "readable" => LiveTiers = EmptyTiers

\* A line the replay is meant to keep: a JSON object with exactly the four
\* fields and a numeric importance.
WellFormed(line) ==
    line.kind = "obj" /\ line.keys = ItemKeys /\ line.importance.kind # "str"

\* C16: the tiers loaded from a log are those of replaying its well-formed
\* lines alone, in file order: every malformed line (blank, not JSON, missing
\* or extra fields, non-numeric importance) is skipped by itself.
C16_SkipsMalformed ==
    call.op \in {"init", "reopen"} =>
        LiveTiers = LoadFromDisk(SelectSeq(file, WellFormed))


\* C24: the log is append-only. Every add places its entry at the tail of its
\* tier and then appends one line holding the entry's ts, role, content and
\* importance, or no line when the append fails; the lines already there are
\* kept as they are, whether or not the add evicted an entry.
C24_AppendOnly ==
    [][ /\ Len(file') >= Len(file) /\ SubSeq(file', 1, Len(file)) = file
        /\ (steps' = steps + 1 /\ IsAddCall(call')) =>
              LET c == call'
                  tier == IF c.tier = "mid_term" THEN mid_term'
                          ELSE IF c.tier = "long_term" THEN long_term'
                          ELSE short_term'
              IN  /\ tier # <<>> /\ tier[Len(tier)] = c.item
                  /\ c.disk_ok =>
                        file' = Append(file,
                                       [kind |-> "obj",
                                        keys |-> {"ts", "role", "content", "importance"},
                                        ts |-> c.item.ts, role |-> c.item.role,
                                        content |-> c.item.content,
                                        importance |-> c.item.importance])
                  /\ ~c.disk_ok => file' = file
      ]_vars

\* C24 witness: an add whose append succeeded has evicted an entry from
\* short_term, after an earlier add whose append failed.
C24_Witness ==
    /\ IsAddCall(call) /\ call.disk_ok /\ ~call.clean
    /\ call.tier = "short_term"
    /\ Len(routed.short_term) > max_short
    /\ file # <<>> /\ file[Len(file)].ts = call.item.ts
\* --------------------------------------------------------- SpacetimeState

\* 1.0 in the fixed-point representation of the six state scalars.
Unit == 100 * 100

Attrs == {"w", "x", "y", "z", "energy", "coherence"}

Min2(a, b) == IF b < a THEN b ELSE a
Max2(a, b) == IF b > a THEN b ELSE a

\* SpacetimeState.clamp: max(0.0, min(1.0, v)) on each of the six scalars.
Clamp(s) == [a \in Attrs |-> Max2(0, Min2(Unit, s[a]))]

\* The neutral values soften pulls towards.
Neutral == [w |-> 5500, x |-> 5500, y |-> 6000, z |-> 6200, coherence |-> 8500]

\* soften with the sign of the pull reversed: v - (neutral - v) * factor.
SoftenAway(s, factor) ==
    [a \in Attrs |->
        IF a \in DOMAIN Neutral THEN s[a] - ((Neutral[a] - s[a]) * factor) \div 100
        ELSE s[a]]

\* SpacetimeState.soften(factor), factor in hundredths: v + (neutral - v) * factor
\* on w, x, y, z and coherence; energy is not touched and nothing is clamped.
Soften(s, factor) ==
    [a \in Attrs |->
        IF a \in DOMAIN Neutral THEN s[a] + ((Neutral[a] - s[a]) * factor) \div 100
        ELSE s[a]]

\* An angle theta, given by cos(theta) and sin(theta) in 1/Unit.
Angle(c, sn) == [cos |-> c, sin |-> sn]

\* SpacetimeState.rotate_plane(a, b, theta): the two assignments in order,
\* then clamp().
RotatePlane(s, a, b, theta) ==
    LET va == s[a]
        vb == s[b]
        s1 == [s EXCEPT ![a] = (va * theta.cos - vb * theta.sin) \div Unit]
        s2 == [s1 EXCEPT ![b] = (va * theta.sin + vb * theta.cos) \div Unit]
    IN  Clamp(s2)

MaxOps == 2

\* Factors 0.05 (the default), 1.0, 5.0 and -1.0.
Factors == {5, 100, 500, -100}

\* theta = 0.03 (the default), pi/2, pi, -pi/2.
Angles == {Angle(9996, 300), Angle(0, Unit), Angle(-Unit, 0), Angle(0, -Unit)}

Axes == {"w", "x", "y", "z"}

InitStates ==
    { DefaultState,
      [a \in Attrs |-> 0],
      [a \in Attrs |-> Unit],
      [w |-> Unit, x |-> 0, y |-> Unit, z |-> 0, energy |-> 2000, coherence |-> Unit] }

CallSoften ==
    /\ steps < MaxOps
    /\ \E factor \in Factors :
          /\ state' = Soften(state, factor)
          /\ call' = [op |-> "soften", factor |-> factor, clean |-> call.clean]
    /\ steps' = steps + 1
    /\ UNCHANGED <<file, short_term, mid_term, long_term, clock, routed,
                   dialog_history, flags>>
    /\ UNCHANGED labVars

CallRotatePlane ==
    /\ steps < MaxOps
    /\ \E a \in Axes, b \in Axes, theta \in Angles :
          /\ state' = RotatePlane(state, a, b, theta)
          /\ call' = [op |-> "rotate_plane", a |-> a, b |-> b, theta |-> theta,
                      clean |-> call.clean]
    /\ steps' = steps + 1
    /\ UNCHANGED <<file, short_term, mid_term, long_term, clock, routed,
                   dialog_history, flags>>
    /\ UNCHANGED labVars

InitState ==
    /\ StoreInit(<<>>)
    /\ state \in InitStates
    /\ dialog_history = <<>>
    /\ flags = DefaultFlags
    /\ call = [op |-> "init", clean |-> TRUE]
    /\ steps = 0
    /\ LabInit

NextState == CallSoften \/ CallRotatePlane

SpecState == InitState /\ [][NextState]_vars

\* ------------------------------------------------- SpacetimeState: claims

InRange(s) == \A a \in Attrs : 0 <= s[a] /\ s[a] <= Unit

\* C6: from a state vector with all six scalars in [0,1], after every soften
\* and rotate_plane call, with any factor and any angle, all six scalars are
\* still in [0,1].
C6_ClampInvariant == InRange(state)

\* ------------------------------------------------------------------ strings

Seqs(S, n) == UNION {[1..k -> S] : k \in 0..n}

\* The characters str.strip() removes, and those strip(" :\n") removes.
Whitespace == {" ", "\n", "\t"}
ColonSpaceNewline == {" ", ":", "\n"}

RECURSIVE LStrip(_, _)
LStrip(s, chars) ==
    IF s # <<>> /\ Head(s) \in chars THEN LStrip(Tail(s), chars) ELSE s

RECURSIVE RStrip(_, _)
RStrip(s, chars) ==
    IF s # <<>> /\ s[Len(s)] \in chars THEN RStrip(SubSeq(s, 1, Len(s) - 1), chars) ELSE s

\* s.strip(chars)
StripChars(s, chars) == RStrip(LStrip(s, chars), chars)

\* s.strip()
Strip(s) == StripChars(s, Whitespace)

\* s.find(sub) from position i on, 1-based; 0 when sub does not occur.
RECURSIVE FindFrom(_, _, _)
FindFrom(s, sub, i) ==
    IF i + Len(sub) - 1 > Len(s) THEN 0
    ELSE IF SubSeq(s, i, i + Len(sub) - 1) = sub THEN i
    ELSE FindFrom(s, sub, i + 1)

\* Mutant of Find: the last occurrence (rindex) instead of the first.
RECURSIVE FindLastFrom(_, _, _)
FindLastFrom(s, sub, i) ==
    IF i < 1 THEN 0
    ELSE IF i + Len(sub) - 1 <= Len(s) /\ SubSeq(s, i, i + Len(sub) - 1) = sub THEN i
    ELSE FindLastFrom(s, sub, i - 1)

FindLast(s, sub) == FindLastFrom(s, sub, Len(s))

\* s.index(sub), 1-based; 0 when sub is not in s.
Find(s, sub) == FindFrom(s, sub, 1)

\* Words of more than one character that the texts of the model are made of,
\* with their length in characters; every other element is one character.
Width(tok) ==
    CASE tok \in {"ROMANAI_FINAL"} -> 13
      [] tok \in {"remember", "Remember"} -> 8
      [] tok \in {"my name"} -> 7
      [] tok \in {"hello", "sorry", "SORRY"} -> 5
      [] tok \in {"idea"} -> 4
      [] tok \in {"sad", "Sad"} -> 3
      [] tok \in {"ok", "so"} -> 2
      [] tok \in {"LOREM"} -> 1500
      [] OTHER -> 1

\* len(s)
RECURSIVE CharLen(_)
CharLen(s) == IF s = <<>> THEN 0 ELSE Width(Head(s)) + CharLen(Tail(s))

\* s.lower()
Lower(s) ==
    [i \in 1..Len(s) |->
        CASE s[i] = "Sad" -> "sad" [] s[i] = "SORRY" -> "sorry"
          [] s[i] = "Remember" -> "remember" [] OTHER -> s[i]]

\* any(k in s.lower() for k in keywords)
AnyIn(keywords, s) == \E i \in 1..Len(s) : Lower(s)[i] \in keywords

\* ------------------------------------------------- RomanAISpacetimeEngine

marker == <<"ROMANAI_FINAL">>

\* What a call of the injected llm_func gives: a string, an exception, or None.
Str(text) == [kind |-> "str", text |-> text]
Raises == [kind |-> "raise", text |-> <<>>]
NoneValue == [kind |-> "none", text |-> <<>>]

\* The text after the first marker, stripped of ' ', ':' and newline.
Improved(eval_text) ==
    LET idx == Find(eval_text, marker)
    IN  StripChars(SubSeq(eval_text, idx + Len(marker), Len(eval_text)), ColonSpaceNewline)

\* Mutant of FinalAnswer: the text after the last marker.
FinalAnswerLastMarker(draft_answer, eval_text) ==
    LET idx == FindLast(eval_text, marker)
        improved == StripChars(SubSeq(eval_text, idx + Len(marker), Len(eval_text)),
                               ColonSpaceNewline)
    IN  IF idx > 0 /\ Len(improved) > 0 THEN Strip(improved) ELSE draft_answer

\* generate_reply, step 5: the final answer from the draft and the self-eval text.
FinalAnswer(draft_answer, eval_text) ==
    IF Find(eval_text, marker) > 0
    THEN LET improved == Improved(eval_text)
         IN  IF Len(improved) > 0 THEN Strip(improved) ELSE draft_answer
    ELSE draft_answer

\* max(0.2, min(1.0, 0.4 + length / 2000.0))
Energy(length) == Max2(2000, Min2(Unit, 4000 + (length * Unit) \div 2000))

DistressWords == {"sad", "scared", "afraid", "lonely", "hurt"}
IdeaWords == {"idea", "story", "creative", "brainstorm"}
\* Mutant of ImportantWords: only 'important' raises the importance.
ImportantWordsOnlyImportant == {"important"}

ImportantWords == {"important", "remember", "my name", "my birthday", "my project"}

\* theta = 0.02: cos 0.9998, sin 0.0200.
Theta002 == Angle(9998, 200)

\* _update_state_from_interaction(user_text, answer)
UpdateStateFromInteraction(s, user_text, answer) ==
    LET s1 == [s EXCEPT !.energy = Energy(CharLen(answer))]
        s2 == [s1 EXCEPT !.coherence =
                  IF AnyIn({"sorry"}, answer) THEN (@ * 95) \div 100
                  ELSE Min2(Unit, (@ * 103) \div 100)]
        s3 == IF AnyIn(DistressWords, user_text)
              THEN [s2 EXCEPT !.x = Min2(Unit, @ + 800)] ELSE s2
        s4 == IF AnyIn(IdeaWords, user_text)
              THEN [s3 EXCEPT !.y = Min2(Unit, @ + 800)] ELSE s3
    IN  Soften(RotatePlane(s4, "w", "y", Theta002), 2)

\* Capacity of dialog_history.
DialogMax == 64

\* Mutant of TurnRaises: a council call that returns None also ends the turn.
TurnRaisesCouncilNone(llm) ==
    \/ flags.enable_multi_agent /\ llm.council.kind # "str"
    \/ llm.draft.kind # "str"
    \/ flags.enable_self_eval /\ llm.eval.kind # "str"

\* Whether the turn ends in an exception of the council, draft or self-eval call.
TurnRaises(llm) ==
    \/ flags.enable_multi_agent /\ llm.council.kind = "raise"
    \/ llm.draft.kind # "str"
    \/ flags.enable_self_eval /\ llm.eval.kind # "str"

\* Mutant of SummaryHook: the stripped summary is promoted without the test
\* that it is not empty.
SummaryHookKeepBlank(m, llm) ==
    IF llm.summary.kind = "str"
    THEN StorePromoteSummary(m, Strip(llm.summary.text), F(70), llm.disk[3])
    ELSE m

\* Mutant of SummaryHook: a failed summary call is recorded as a summary entry.
SummaryHookRecordFailure(m, llm) ==
    IF llm.summary.kind = "raise"
    THEN StorePromoteSummary(m, <<"error">>, F(70), llm.disk[3])
    ELSE IF llm.summary.kind = "str" /\ Strip(llm.summary.text) # <<>>
    THEN StorePromoteSummary(m, Strip(llm.summary.text), F(70), llm.disk[3])
    ELSE m

\* The summary hook: _summarize_recent and promote_summary(summary, weight=0.7),
\* with every exception swallowed.
SummaryHook(m, llm) ==
    IF llm.summary.kind = "str" /\ Strip(llm.summary.text) # <<>>
    THEN StorePromoteSummary(m, Strip(llm.summary.text), F(70), llm.disk[3])
    ELSE m

\* The calls of llm_func a turn can make.
LlmSteps == {"council", "draft", "eval", "summary"}

\* Mutant of TurnTrace: the council call is made whatever enable_multi_agent says.
TurnTraceAlwaysCouncil(llm, summarize, promoted) ==
    LET eval == IF flags.enable_self_eval THEN <<"eval">> ELSE <<>>
        hook == IF ~summarize THEN <<>>
                ELSE IF promoted THEN <<"summary", "promote_summary">>
                ELSE <<"summary">>
    IN  IF llm.council.kind = "raise"
        THEN <<"system_prompt", "council">>
        ELSE IF llm.draft.kind # "str"
        THEN <<"system_prompt", "council", "draft">>
        ELSE IF flags.enable_self_eval /\ llm.eval.kind # "str"
        THEN <<"system_prompt", "council", "draft">> \o eval
        ELSE <<"system_prompt", "council", "draft">> \o eval
                 \o <<"finalize", "update_state", "dialog_append",
                      "add_user", "add_assistant">> \o hook

\* The steps of generate_reply in the order the code takes them, up to the
\* call that raises if one does: summarize says whether the summary hook runs
\* and promoted whether promote_summary is reached.
TurnTrace(llm, summarize, promoted) ==
    LET council == IF flags.enable_multi_agent THEN <<"council">> ELSE <<>>
        eval == IF flags.enable_self_eval THEN <<"eval">> ELSE <<>>
        hook == IF ~summarize THEN <<>>
                ELSE IF promoted THEN <<"summary", "promote_summary">>
                ELSE <<"summary">>
    IN  IF flags.enable_multi_agent /\ llm.council.kind = "raise"
        THEN <<"system_prompt">> \o council
        ELSE IF llm.draft.kind # "str"
        THEN <<"system_prompt">> \o council \o <<"draft">>
        ELSE IF flags.enable_self_eval /\ llm.eval.kind # "str"
        THEN <<"system_prompt">> \o council \o <<"draft">> \o eval
        ELSE <<"system_prompt">> \o council \o <<"draft">> \o eval
                 \o <<"finalize", "update_state", "dialog_append",
                      "add_user", "add_assistant">> \o hook

\* The number of llm_func calls in a trace.
LlmCalls(trace) == Cardinality({i \in 1..Len(trace) : trace[i] \in LlmSteps})

\* sep.join(parts)
RECURSIVE Join(_, _)
Join(parts, sep) ==
    IF parts = <<>> THEN <<>>
    ELSE IF Len(parts) = 1 THEN parts[1]
    ELSE parts[1] \o sep \o Join(Tail(parts), sep)

\* recursive_refine(thought, depth): the chain of depth + 1 prompts, each pass
\* wrapping the previous one.
RECURSIVE RefineChain(_, _, _)
RefineChain(current, i, depth) ==
    IF i > depth THEN <<>>
    ELSE LET next == <<"Refine (pass ", ToString(i), "): ">> \o current
         IN  <<next>> \o RefineChain(next, i + 1, depth)

RecursiveRefine(thought, depth) ==
    <<(<<"Initial thought: ">> \o thought)>> \o RefineChain(thought, 1, depth)

\* str(v) of an llm_func result inside an f-string.
Format(v) == IF v.kind = "none" THEN <<"None">> ELSE v.text

\* internal_traces of generate_reply when the draft call is reached: the
\* refinement chain of depth 2 if enable_recursive, then the council answer if
\* enable_multi_agent.
InternalTraces(fl, user_text, llm) ==
    (IF fl.enable_recursive THEN RecursiveRefine(user_text, 2) ELSE <<>>)
        \o (IF fl.enable_multi_agent
            THEN <<(<<"[COUNCIL]", "\n">> \o Format(llm.council))>>
            ELSE <<>>)

NotesHeader == <<"Here are your internal reasoning notes. They are for YOUR mind only, not to be repeated verbatim:", "\n", "\n">>

\* The content of the private-notes system message.
NotesContent(traces) == NotesHeader \o Join(traces, <<"\n", "\n">>)

\* The messages of the draft call after the system prompt: the user text, the
\* notes message if there are notes, and the user text again.
DraftMessages(fl, user_text, llm) ==
    LET traces == InternalTraces(fl, user_text, llm)
    IN  <<[role |-> "user", content |-> user_text]>>
            \o (IF traces # <<>>
                THEN <<[role |-> "system", content |-> NotesContent(traces)]>>
                ELSE <<>>)
            \o <<[role |-> "user", content |-> user_text]>>

\* What _build_system_prompt reads at the start of a turn: the entries
\* get_recall_snippet draws from and the state vector it describes.
SystemPrompt(m, s) ==
    [recall |-> {m.long_term[i] : i \in 1..Len(m.long_term)}
                    \cup {LastN(m.mid_term, 4)[i] : i \in 1..Len(LastN(m.mid_term, 4))}
                    \cup {LastN(m.short_term, 6)[i] : i \in 1..Len(LastN(m.short_term, 6))},
     state |-> s]

\* The final answer of a turn none of whose llm_func calls fails.
FinalOf(llm) ==
    IF flags.enable_self_eval
    THEN FinalAnswer(Strip(llm.draft.text), llm.eval.text)
    ELSE Strip(llm.draft.text)

\* What generate_reply gives its caller: the final answer, or the exception.
TurnResult(llm) == IF TurnRaises(llm) THEN Raises ELSE Str(FinalOf(llm))

\* Mutant of FailTurn: the exchange is put in the dialog history before the
\* llm_func calls, so a failed turn leaves it there.
FailTurnRecorded(user_text, llm) ==
    /\ call' = [op |-> "generate_reply", user_text |-> user_text, llm |-> llm,
                result |-> Raises, clean |-> call.clean,
                completed |-> call.completed, summarized |-> FALSE,
                trace |-> TurnTrace(llm, FALSE, FALSE),
                prompt |-> SystemPrompt(Mem, state),
                messages |-> IF flags.enable_multi_agent /\ llm.council.kind = "raise"
                             THEN <<>>
                             ELSE DraftMessages(flags, user_text, llm)]
    /\ dialog_history' = DequeAppend(dialog_history,
                                     [user |-> user_text, assistant |-> <<>>], DialogMax)
    /\ UNCHANGED <<file, short_term, mid_term, long_term, clock, routed, state>>

\* A turn whose council, draft or self-eval call raises: the exception leaves
\* generate_reply before step 6, the first to assign anything of the engine.
FailTurn(user_text, llm) ==
    /\ call' = [op |-> "generate_reply", user_text |-> user_text, llm |-> llm,
                result |-> Raises, clean |-> call.clean,
                completed |-> call.completed, summarized |-> FALSE,
                trace |-> TurnTrace(llm, FALSE, FALSE),
                prompt |-> SystemPrompt(Mem, state),
                messages |-> IF flags.enable_multi_agent /\ llm.council.kind = "raise"
                             THEN <<>>
                             ELSE DraftMessages(flags, user_text, llm)]
    /\ UNCHANGED <<file, short_term, mid_term, long_term, clock, routed,
                   state, dialog_history>>

\* generate_reply(user_text, llm_func): llm gives the answers of llm_func to
\* the council, draft, self-eval and summary calls and whether each of the
\* turn's disk appends succeeds.
GenerateReply(user_text, llm) ==
    IF TurnRaises(llm)
    THEN FailTurn(user_text, llm)
    ELSE LET prompt == SystemPrompt(Mem, state)
             draft_answer == Strip(llm.draft.text)
             final_answer == IF flags.enable_self_eval
                             THEN FinalAnswer(draft_answer, llm.eval.text)
                             ELSE draft_answer
             history == DequeAppend(dialog_history,
                                    [user |-> user_text, assistant |-> final_answer],
                                    DialogMax)
             importance == IF AnyIn(ImportantWords, user_text) THEN 80 ELSE 40
             m1 == StoreAdd(Mem, "user", user_text, F(importance), llm.disk[1])
             m2 == StoreAdd(m1, "assistant", final_answer, F((importance * 8) \div 10),
                            llm.disk[2])
             summarize == Len(history) % 6 = 0
             m3 == IF summarize THEN SummaryHook(m2, llm) ELSE m2
         IN  /\ state' = UpdateStateFromInteraction(state, user_text, final_answer)
             /\ dialog_history' = history
             /\ SetMem(m3)
             /\ call' = [op |-> "generate_reply", user_text |-> user_text, llm |-> llm,
                         result |-> Str(final_answer),
                         clean |-> call.clean /\ llm.disk[1] /\ llm.disk[2]
                                   /\ (m3 = m2 \/ llm.disk[3]),
                         completed |-> call.completed + 1, summarized |-> summarize,
                         trace |-> TurnTrace(llm, summarize, m3 # m2),
                         prompt |-> prompt,
                         messages |-> DraftMessages(flags, user_text, llm)]

MaxTurns == 8

AllOk == <<TRUE, TRUE, TRUE>>

Llm(council, draft, eval, summary, disk) ==
    [council |-> council, draft |-> draft, eval |-> eval, summary |-> summary, disk |-> disk]

\* The turns the engine is driven with: a text with a distress and an ideation
\* word and a short answer; a plain text whose answer comes from the self-eval
\* text and says sorry; a text with importance words, a 1500-character answer,
\* a failing disk append and a failing summary call; a failing council call.
Scenarios ==
    { [user_text |-> <<"so", " ", "Sad", " ", "idea">>,
       llm |-> Llm(Str(<<"c">>), Str(<<"ok">>), Str(<<"fine">>), Str(<<"s">>), AllOk)],
      [user_text |-> <<"hello">>,
       llm |-> Llm(Str(<<"c">>), Str(<<" ", "sorry", "\n">>),
                   Str(<<"x", "ROMANAI_FINAL", ":", " ", "ok", " ", "SORRY">>),
                   Str(<<" ">>), AllOk)],
      [user_text |-> <<"Remember", " ", "my name">>,
       llm |-> Llm(NoneValue, Str(<<"LOREM">>), Str(<<"fine">>), Raises,
                   <<TRUE, FALSE, TRUE>>)],
      [user_text |-> <<"hello">>,
       llm |-> Llm(Raises, Str(<<>>), NoneValue, NoneValue, AllOk)] }

FlagSets ==
    { DefaultFlags,
      [enable_recursive |-> TRUE, enable_multi_agent |-> FALSE, enable_self_eval |-> FALSE] }

Turn ==
    /\ steps < MaxTurns
    /\ \E sc \in Scenarios : GenerateReply(sc.user_text, sc.llm)
    /\ steps' = steps + 1
    /\ UNCHANGED flags
    /\ UNCHANGED labVars

InitEngine ==
    /\ StoreInit(<<>>)
    /\ state = DefaultState
    /\ dialog_history = <<>>
    /\ flags \in FlagSets
    /\ call = [op |-> "init", clean |-> TRUE, completed |-> 0]
    /\ steps = 0
    /\ LabInit

SpecTurn == InitEngine /\ [][Turn]_vars

\* The first turn of a fresh engine, for every draft and every self-eval text
\* of at most MaxEvalLen characters.
MaxEvalLen == 4

EvalAlphabet == {"a", ":", " ", "\n", "\t", "ROMANAI_FINAL"}

EvalDrafts == { <<"d">>, <<" ", "d", "\n">>, <<>> }

FirstTurn ==
    /\ steps = 0
    /\ \E draft \in EvalDrafts, eval_text \in Seqs(EvalAlphabet, MaxEvalLen) :
          GenerateReply(<<"hello">>,
                        Llm(Str(<<"c">>), Str(draft), Str(eval_text), Str(<<"s">>), AllOk))
    /\ steps' = steps + 1
    /\ UNCHANGED flags
    /\ UNCHANGED labVars

SpecEval == InitEngine /\ [][FirstTurn]_vars

\* A long session on one engine: turns that complete and turns whose draft
\* call raises, until the dialog history has been full for some turns.
MaxLifeTurns == 68

LifeScenarios ==
    { [user_text |-> <<"hello">>,
       llm |-> Llm(Str(<<"c">>), Str(<<"ok">>), Str(<<"fine">>), Str(<<"s">>), AllOk)],
      [user_text |-> <<"hello">>,
       llm |-> Llm(Str(<<"c">>), Raises, Str(<<"fine">>), Str(<<"s">>), AllOk)] }

LifeTurn ==
    /\ steps < MaxLifeTurns
    /\ \E sc \in LifeScenarios : GenerateReply(sc.user_text, sc.llm)
    /\ steps' = steps + 1
    /\ UNCHANGED flags
    /\ UNCHANGED labVars

SpecLife == InitEngine /\ [][LifeTurn]_vars

\* Engines built with every combination of the three configuration flags.
MaxFlagTurns == 2

AllFlags ==
    [enable_recursive : BOOLEAN, enable_multi_agent : BOOLEAN, enable_self_eval : BOOLEAN]

FlagTurn ==
    /\ steps < MaxFlagTurns
    /\ \E sc \in Scenarios : GenerateReply(sc.user_text, sc.llm)
    /\ steps' = steps + 1
    /\ UNCHANGED flags
    /\ UNCHANGED labVars

InitFlags ==
    /\ StoreInit(<<>>)
    /\ state = DefaultState
    /\ dialog_history = <<>>
    /\ flags \in AllFlags
    /\ call = [op |-> "init", clean |-> TRUE, completed |-> 0]
    /\ steps = 0
    /\ LabInit

SpecFlags == InitFlags /\ [][FlagTurn]_vars

\* --------------------------------------------- generate_reply: claims

Returned(c) == c.op = "generate_reply" /\ c.result.kind = "str"

\* C7: for an engine started with the default state vector, after every
\* completed generate_reply turn all six scalars lie in [0,1].
C7_StateInRange == InRange(state)

\* C7 witness: MaxTurns turns are done, the last with an answer of 1500
\* characters (energy at its ceiling), and empathy, creativity and coherence
\* have each been capped at 1 and softened since.
C7_Witness ==
    /\ steps = MaxTurns /\ Returned(call)
    /\ state.energy = Unit
    /\ state.x > 9500 /\ state.y > 9500 /\ state.coherence > 9900

\* s without its longest prefix and suffix made of chars, stated by positions.
TrimOf(s, chars) ==
    LET keep == {i \in 1..Len(s) : s[i] \notin chars}
    IN  IF keep = {} THEN <<>>
        ELSE LET lo == CHOOSE i \in keep : \A j \in keep : i <= j
                 hi == CHOOSE i \in keep : \A j \in keep : j <= i
             IN  [k \in 1..(hi - lo + 1) |-> s[lo + k - 1]]

MarkerAt(s) == {i \in 1..Len(s) : s[i] = "ROMANAI_FINAL"}

\* The text after the first occurrence of the marker.
AfterFirstMarker(s) ==
    LET first == CHOOSE i \in MarkerAt(s) : \A j \in MarkerAt(s) : i <= j
    IN  [k \in 1..(Len(s) - first) |-> s[first + k]]

C10_NeverEmpty ==
    (Returned(call) /\ Strip(call.llm.draft.text) # <<>>) =>
        /\ call.result.text # <<>>
        /\ call.result.text # Strip(call.llm.draft.text) =>
              /\ MarkerAt(call.llm.eval.text) # {}
              /\ TrimOf(AfterFirstMarker(call.llm.eval.text), Whitespace \cup {":"}) # <<>>

\* The entries of a tier, as a set.
Entries(q) == {q[i] : i \in 1..Len(q)}

\* The llm_func calls of a completed turn before the summary hook.
BaseCalls ==
    (IF flags.enable_multi_agent THEN 1 ELSE 0) + 1
        + (IF flags.enable_self_eval THEN 1 ELSE 0)

\* C11: on a fresh engine the first six completed turns make exactly one
\* summarization attempt, one extra llm_func call at the end of the sixth turn,
\* after that turn's user and assistant entries; a non-blank summary text adds
\* exactly one 'summary' entry of importance 0.7 to mid_term, a blank one none.
C11_SummaryAtSixth ==
    (Returned(call) /\ call.completed <= 6) =>
        LET summary == call.llm.summary
        IN  /\ call.summarized <=> call.completed = 6
            /\ LlmCalls(call.trace) = BaseCalls + (IF call.completed = 6 THEN 1 ELSE 0)
            /\ call.completed < 6 => mid_term = <<>>
            /\ call.completed = 6 =>
                  IF summary.kind = "str" /\ TrimOf(summary.text, Whitespace) # <<>>
                  THEN /\ Len(mid_term) = 1
                       /\ mid_term[1].role = "summary"
                       /\ mid_term[1].importance = F(70)
                       /\ mid_term[1].content = TrimOf(summary.text, Whitespace)
                       /\ \A e \in Entries(short_term) \cup Entries(long_term) :
                             e.ts < mid_term[1].ts
                  ELSE mid_term = <<>>

\* C11 witness: the sixth turn has completed and its summary is in mid_term.
C11_Witness ==
    /\ Returned(call) /\ call.completed = 6 /\ call.summarized
    /\ Len(mid_term) = 1

\* C12: for every n >= 1 the n-th completed turn of an engine makes a
\* summarization attempt if and only if n is a multiple of 6, also once the
\* dialog history of capacity 64 is full.
C12_EverySixth ==
    Returned(call) => (call.summarized <=> call.completed % 6 = 0)

\* C13: when the summary call raises on a summarizing turn, generate_reply
\* still returns the final answer, the state vector is updated, the exchange is
\* in the dialog history, the user and assistant entries are stored, and
\* mid_term gets no entry.
C13_SummaryFailureSwallowed ==
    [][ (Returned(call') /\ call'.summarized /\ call'.llm.summary.kind = "raise") =>
          LET user_text == call'.user_text
              draft == TrimOf(call'.llm.draft.text, Whitespace)
              answer == call'.result.text
              imp == IF AnyIn(ImportantWords, user_text) THEN 80 ELSE 40
          IN  /\ answer = IF flags.enable_self_eval
                          THEN FinalAnswer(draft, call'.llm.eval.text)
                          ELSE draft
              /\ state' = UpdateStateFromInteraction(state, user_text, answer)
              /\ dialog_history' =
                    LastN(Append(dialog_history,
                                 [user |-> user_text, assistant |-> answer]), DialogMax)
              /\ MemoryItem(clock, "user", user_text, F(imp))
                    \in Entries(short_term') \cup Entries(long_term')
              /\ MemoryItem(clock + 1, "assistant", answer, F((imp * 8) \div 10))
                    \in Entries(short_term') \cup Entries(long_term')
              /\ clock' = clock + 2
              /\ mid_term' = mid_term ]_vars

\* C13 witness: a summarizing turn has returned although its summary call raised.
C13_Witness ==
    /\ Returned(call) /\ call.summarized
    /\ call.llm.summary.kind = "raise"
    /\ Len(dialog_history) = 6

\* C14: generate_reply raises exactly when llm_func raises in the council call
\* (made only with enable_multi_agent), or raises or returns None in the draft
\* call or in the self-eval call (made only with enable_self_eval); a failing
\* disk append or summary call never makes it raise.
C14_RaisesIffLlmFails ==
    call.op = "generate_reply" =>
        (call.result = Raises <=>
            \/ flags.enable_multi_agent /\ call.llm.council.kind = "raise"
            \/ call.llm.draft.kind \in {"raise", "none"}
            \/ flags.enable_self_eval /\ call.llm.eval.kind \in {"raise", "none"})

\* C14 witness: a turn has returned although a disk append failed, the council
\* call returned None and the summary call raised.
C14_Witness ==
    /\ Returned(call) /\ call.summarized
    /\ flags.enable_multi_agent /\ call.llm.council.kind = "none"
    /\ ~call.llm.disk[2] /\ call.llm.summary.kind = "raise"

\* C19: a completed turn whose user text holds a distress keyword and no
\* importance keyword leaves empathy strictly greater than before, by 0.08
\* capped at 1, and appends a 'user' entry of importance 0.4.
C19_EmpathyStep ==
    [][ (/\ Returned(call')
         /\ AnyIn(DistressWords, call'.user_text)
         /\ ~AnyIn(ImportantWords, call'.user_text)) =>
          /\ state'.x > state.x
          /\ state'.x = Min2(Unit, state.x + 800)
          /\ MemoryItem(clock, "user", call'.user_text, F(40)) \in Entries(short_term')
      ]_vars

\* C20: a completed turn takes its steps in the order system prompt, council
\* call (if enabled), draft call, self-eval call (if enabled), finalize, state
\* update, dialog append, user entry, assistant entry, summary call (on
\* summarizing turns only); llm_func is called 3 times (4 on a summarizing
\* turn) with the default flags and once (twice) with multi-agent and self-eval
\* off; the system prompt is built from the state and the memory as they were
\* before the turn.
C20_TurnOrder ==
    [][ Returned(call') =>
          LET council == IF flags.enable_multi_agent THEN <<"council">> ELSE <<>>
              eval == IF flags.enable_self_eval THEN <<"eval">> ELSE <<>>
              hook == IF call'.summarized THEN <<"summary">> ELSE <<>>
              expected == <<"system_prompt">> \o council \o <<"draft">> \o eval
                              \o <<"finalize", "update_state", "dialog_append",
                                   "add_user", "add_assistant">> \o hook
              trace == call'.trace
              extra == IF call'.summarized THEN 1 ELSE 0
          IN  /\ Len(trace) >= Len(expected)
              /\ SubSeq(trace, 1, Len(expected)) = expected
              /\ Len(trace) > Len(expected) =>
                    /\ call'.summarized
                    /\ trace = Append(expected, "promote_summary")
              /\ call'.summarized <=> Len(dialog_history') % 6 = 0
              /\ flags = DefaultFlags => LlmCalls(trace) = 3 + extra
              /\ (~flags.enable_multi_agent /\ ~flags.enable_self_eval) =>
                    LlmCalls(trace) = 1 + extra
              /\ call'.prompt.state = state
              /\ call'.prompt.recall \subseteq
                    Entries(short_term) \cup Entries(mid_term) \cup Entries(long_term)
              /\ \A e \in call'.prompt.recall : e.ts < clock
              /\ \E u \in Entries(short_term') \cup Entries(long_term') :
                    u.role = "user" /\ u.ts = clock
              /\ \E a \in Entries(short_term') \cup Entries(long_term') :
                    a.role = "assistant" /\ a.ts = clock + 1
              /\ mid_term' # mid_term =>
                    mid_term'[Len(mid_term')].ts = clock + 2 ]_vars

\* C20 witness: a summarizing turn with the default flags has made its four calls.
C20_Witness ==
    /\ Returned(call) /\ call.summarized /\ flags = DefaultFlags
    /\ LlmCalls(call.trace) = 4
    /\ call.trace[Len(call.trace)] = "promote_summary"


\* Whether the turn recorded in c reached the draft call.
DraftCalled(c) ==
    c.op = "generate_reply" /\ \E i \in 1..Len(c.trace) : c.trace[i] = "draft"

\* C21: on every turn that reaches the draft call, whatever the flags, the
\* draft messages hold a private-notes system message whose notes start with
\* the three strings of the depth-2 refinement of the user text, followed by
\* the council result when the council was called.
C21_RefineTraceAlways ==
    DraftCalled(call) =>
        LET T == call.user_text
            refine == << <<"Initial thought: ">> \o T,
                         <<"Refine (pass ", "1", "): ">> \o T,
                         <<"Refine (pass ", "2", "): ", "Refine (pass ", "1", "): ">> \o T >>
            council == IF \E i \in 1..Len(call.trace) : call.trace[i] = "council"
                       THEN <<(<<"[COUNCIL]", "\n">> \o Format(call.llm.council))>>
                       ELSE <<>>
        IN  /\ Len(call.messages) = 3
            /\ call.messages[2].role = "system"
            /\ call.messages[2].content
                   = NotesHeader \o Join(refine \o council, <<"\n", "\n">>)

\* C23: a completed turn adds exactly two conversation entries, the user text
\* at importance I and then the final answer at importance 0.8 * I, with
\* I = 0.8 when the lower-cased user text holds one of the five keywords and
\* 0.4 otherwise; the user entry goes to long_term exactly when a keyword is
\* present, the assistant entry always to short_term; any third entry of the
\* turn is a summary in mid_term.
C23_TwoEntriesPerTurn ==
    [][ (steps' = steps + 1 /\ Returned(call')) =>
          LET T == call'.user_text
              keyword == \E i \in 1..Len(T) :
                            Lower(T)[i] \in {"important", "remember", "my name",
                                             "my birthday", "my project"}
              I == IF keyword THEN 80 ELSE 40
              u == [ts |-> clock, role |-> "user", content |-> T, importance |-> F(I)]
              a == [ts |-> clock + 1, role |-> "assistant",
                    content |-> call'.result.text, importance |-> F((8 * I) \div 10)]
          IN  /\ keyword =>
                    /\ long_term' = Append(long_term, u)
                    /\ short_term' = LastN(Append(short_term, a), max_short)
              /\ ~keyword =>
                    /\ long_term' = long_term
                    /\ short_term' = LastN(short_term \o <<u, a>>, max_short)
              /\ \/ clock' = clock + 2 /\ mid_term' = mid_term
                 \/ /\ clock' = clock + 3
                    /\ mid_term' # <<>>
                    /\ mid_term'[Len(mid_term')].role = "summary"
                    /\ mid_term'[Len(mid_term')].ts = clock + 2
      ]_vars

\* C23 witness: completed turns with and without a keyword have stored their
\* entries: the last turn's user text is in long_term, an earlier one's is in
\* short_term.
C23_Witness ==
    /\ Returned(call)
    /\ long_term # <<>>
    /\ long_term[Len(long_term)].content = call.user_text
    /\ long_term[Len(long_term)].ts = clock - 2
    /\ short_term # <<>>
    /\ short_term[Len(short_term)].role = "assistant"
    /\ \E i \in 1..Len(dialog_history) :
          \A k \in 1..Len(dialog_history[i].user) :
              Lower(dialog_history[i].user)[k] \notin ImportantWords

\* C25: a turn that ends in an exception of the council, draft or self-eval
\* call leaves the state vector, the dialog history, the three tiers and the
\* log as they were, and the summary hook of a completed turn runs exactly
\* when the number of completed turns, failed ones not counted, is a multiple
\* of 6.
C25_FailedTurnNoEffect ==
    [][ /\ (steps' = steps + 1 /\ call'.op = "generate_reply" /\ call'.result = Raises) =>
              /\ UNCHANGED <<state, dialog_history, short_term, mid_term, long_term, file>>
              /\ call'.completed = call.completed
        /\ (steps' = steps + 1 /\ Returned(call')) =>
              /\ call'.completed = call.completed + 1
              /\ Len(dialog_history') = call'.completed
              /\ call'.summarized <=> call'.completed % 6 = 0
      ]_vars

\* C25 witness: a turn has failed on an engine with five completed turns,
\* after at least one other failed turn.
C25_Witness ==
    /\ call.op = "generate_reply" /\ call.result = Raises
    /\ call.completed = 5 /\ Len(dialog_history) = 5
    /\ steps >= 7
    /\ short_term # <<>>
\* ------------------------------------------------------ get_recall_snippet

TagLong == <<"[", "L", "O", "N", "G", "]", " ">>
TagSummary == <<"[", "S", "U", "M", "M", "A", "R", "Y", "]", " ">>
TagRecent == <<"[", "R", "E", "C", "E", "N", "T", "]", " ">>

\* The characters of a role name.
RoleText(role) ==
    CASE role = "user" -> <<"u", "s", "e", "r">>
      [] role = "assistant" -> <<"a", "s", "s", "i", "s", "t", "a", "n", "t">>
      [] role = "summary" -> <<"s", "u", "m", "m", "a", "r", "y">>
      [] OTHER -> <<role>>

\* What random.sample(long_term, k) may give, as positions in long_term: k
\* distinct positions in any order, k = min(4, len(long_term)).
Samples(n) ==
    LET k == Min2(4, n)
    IN  {p \in [1..k -> 1..n] : \A i, j \in 1..k : i # j => p[i] # p[j]}

\* s[-n:] of Python: the last n elements, and all of s when n = 0 (-0 is 0).
LastChars(s, n) ==
    IF n = 0 THEN s ELSE SubSeq(s, Max2(1, Len(s) - n + 1), Len(s))

\* Mutant of RecallBlob: the oldest six short-term entries are taken instead
\* of the most recent six.
RecallBlobOldestShort(m, sample) ==
    LET longs == [i \in 1..Len(sample) |-> TagLong \o m.long_term[sample[i]].content]
        mids == LastN(m.mid_term, 4)
        shorts == SubSeq(m.short_term, 1, Min2(6, Len(m.short_term)))
        mid_parts == [i \in 1..Len(mids) |-> TagSummary \o mids[i].content]
        short_parts == [i \in 1..Len(shorts) |->
                           TagRecent \o RoleText(shorts[i].role) \o <<":", " ">>
                               \o shorts[i].content]
    IN  Join(longs \o mid_parts \o short_parts, <<"\n">>)

\* The blob before truncation, for the sample drawn.
RecallBlob(m, sample) ==
    LET longs == [i \in 1..Len(sample) |-> TagLong \o m.long_term[sample[i]].content]
        mids == LastN(m.mid_term, 4)
        shorts == LastN(m.short_term, 6)
        mid_parts == [i \in 1..Len(mids) |-> TagSummary \o mids[i].content]
        short_parts == [i \in 1..Len(shorts) |->
                           TagRecent \o RoleText(shorts[i].role) \o <<":", " ">>
                               \o shorts[i].content]
    IN  Join(longs \o mid_parts \o short_parts, <<"\n">>)

\* get_recall_snippet(max_chars)
RecallSnippet(m, sample, max_chars) ==
    LET blob == RecallBlob(m, sample)
    IN  Strip(IF Len(blob) > max_chars THEN LastChars(blob, max_chars) ELSE blob)

\* The default of max_chars, and the largest other value asked for.
DefaultMaxChars == 1200
MaxChars == 20

RecallContents == { <<>>, <<"a">>, <<"a", " ">>, <<" ", "b">> }

RecallLines ==
    {[Line(1, "user", F(40)) EXCEPT !.content = c] : c \in RecallContents}
        \cup { Line(2, "summary", F(70)), Line(3, "user", F(80)),
               [Line(4, "assistant", F(90)) EXCEPT !.content = <<"b">>] }

MaxRecallLines == 3

CallRecallSnippet ==
    /\ \E max_chars \in (0..MaxChars) \cup {DefaultMaxChars},
          sample \in Samples(Len(long_term)) :
          call' = [op |-> "get_recall_snippet", max_chars |-> max_chars,
                   blob |-> RecallBlob(Mem, sample),
                   result |-> RecallSnippet(Mem, sample, max_chars),
                   clean |-> call.clean]
    /\ UNCHANGED <<file, short_term, mid_term, long_term, clock, routed, state,
                   dialog_history, flags, steps>>
    /\ UNCHANGED labVars

InitRecall ==
    /\ \E lines \in Seqs(RecallLines, MaxRecallLines) : StoreInit(lines)
    /\ state = DefaultState
    /\ dialog_history = <<>>
    /\ flags = DefaultFlags
    /\ call = [op |-> "init", clean |-> TRUE]
    /\ steps = 0
    /\ LabInit

SpecRecall == InitRecall /\ [][CallRecallSnippet]_vars

\* A store of the default capacities opened on a log of up to 17 entries with
\* distinct contents: 7 for short_term, 5 for mid_term and 5 for long_term.
DeepRoles ==
    <<"user", "summary", "lore", "user", "summary", "lore", "user", "summary", "lore",
      "user", "summary", "lore", "user", "summary", "lore", "user", "user">>

DeepFile ==
    [i \in 1..Len(DeepRoles) |->
        [Line(i, IF DeepRoles[i] = "summary" THEN "summary" ELSE "user",
              IF DeepRoles[i] = "lore" THEN F(80) ELSE F(40))
            EXCEPT !.content = <<ToString(i)>>]]

CallRecallDeep ==
    /\ \E sample \in Samples(Len(long_term)) :
          call' = [op |-> "get_recall_snippet", max_chars |-> DefaultMaxChars,
                   blob |-> RecallBlob(Mem, sample),
                   result |-> RecallSnippet(Mem, sample, DefaultMaxChars),
                   clean |-> call.clean]
    /\ UNCHANGED <<file, short_term, mid_term, long_term, clock, routed, state,
                   dialog_history, flags, steps>>
    /\ UNCHANGED labVars

InitRecallDeep ==
    /\ \E n \in 0..Len(DeepFile) :
          LET lines == SubSeq(DeepFile, 1, n)
              t == LoadWith(EmptyTiers, lines, DefaultMaxShort, DefaultMaxMid)
          IN  /\ file = lines
              /\ short_term = t.short_term
              /\ mid_term = t.mid_term
              /\ long_term = t.long_term
              /\ routed = RoutedFrom(lines)
              /\ clock = 10
    /\ state = DefaultState
    /\ dialog_history = <<>>
    /\ flags = DefaultFlags
    /\ call = [op |-> "init", clean |-> TRUE]
    /\ steps = 0
    /\ LabInit

SpecRecallDeep == InitRecallDeep /\ [][CallRecallDeep]_vars

\* ---------------------------------------------- get_recall_snippet: claims

IsSuffix(t, s) == Len(t) <= Len(s) /\ t = SubSeq(s, Len(s) - Len(t) + 1, Len(s))

\* C8: for every max_chars >= 0, get_recall_snippet returns at most max_chars
\* characters, and when the blob is longer than max_chars what it returns is a
\* suffix of the blob.
C8_RecallTruncation ==
    call.op = "get_recall_snippet" =>
        /\ Len(call.result) <= call.max_chars
        /\ Len(call.blob) > call.max_chars => IsSuffix(call.result, call.blob)


\* The last n elements of q in their order, written position by position.
Recent(q, n) ==
    LET k == Min2(n, Len(q)) IN [i \in 1..k |-> q[Len(q) - k + i]]

\* C22: the untruncated blob is, in this order, min(4, |long_term|) long-term
\* entries at pairwise distinct positions tagged [LONG], the most recent
\* min(4, |mid_term|) summaries tagged [SUMMARY] in chronological order, and
\* the most recent min(6, |short_term|) entries tagged '[RECENT] role: content'
\* in chronological order, joined by newlines; the call changes no tier and no
\* log line.
C22_BlobComposition ==
    [][ call'.op = "get_recall_snippet" =>
          /\ UNCHANGED <<file, short_term, mid_term, long_term>>
          /\ LET k == Min2(4, Len(long_term))
                 mids == Recent(mid_term, 4)
                 shorts == Recent(short_term, 6)
             IN  \E pick \in [1..k -> 1..Len(long_term)] :
                    /\ \A i, j \in 1..k : pick[i] = pick[j] => i = j
                    /\ call'.blob =
                         Join([i \in 1..k |->
                                  <<"[", "L", "O", "N", "G", "]", " ">>
                                      \o long_term[pick[i]].content]
                              \o [i \in 1..Len(mids) |->
                                  <<"[", "S", "U", "M", "M", "A", "R", "Y", "]", " ">>
                                      \o mids[i].content]
                              \o [i \in 1..Len(shorts) |->
                                  <<"[", "R", "E", "C", "E", "N", "T", "]", " ">>
                                      \o RoleText(shorts[i].role) \o <<":", " ">>
                                      \o shorts[i].content],
                              <<"\n">>)
      ]_vars

\* A snippet was built from a store holding more than 4 long-term entries,
\* more than 4 summaries and more than 6 short-term entries.
C22_Witness ==
    /\ call.op = "get_recall_snippet"
    /\ Len(long_term) > 4
    /\ Len(mid_term) > 4
    /\ Len(short_term) > 6
\* ------------------------------------------------ helper modules, HelperRouter

\* A router whose only imported helper module is key.
OnlyHelper(key) == [k \in TableKeys |-> k = key]

\* The module behind each key, as its messages name it.
HelperName(key) ==
    CASE key = "scriptor" -> "helper_scriptor"
      [] key = "master" -> "helper_master"
      [] key = "micro" -> "helper_micro"
      [] key = "patcher" -> "helper_patcher"
      [] key = "multimodel" -> "helper_multimodel"
      [] OTHER -> "tool_rewriter"

\* The backend as the router's own messages name it.
RouterName(key) ==
    CASE key = "scriptor" -> "Scriptor"
      [] key = "master" -> "Master"
      [] key = "micro" -> "Micro"
      [] key = "patcher" -> "Patcher"
      [] key = "multimodel" -> "MultiModel"
      [] OTHER -> "Rewriter"

\* backend.lower()
LowerName(backend) ==
    CASE backend = "MASTER" -> "master"
      [] backend = "Micro" -> "micro"
      [] OTHER -> backend

\* The text a helper's run hands to generate_reply: helper_patcher and
\* tool_rewriter put the prompt between a header and a footer.
HelperPrompt(key, prompt) ==
    CASE key = "patcher" -> <<"=== CODE TO PATCH ===", "\n">> \o prompt
                                \o <<"\n", "=== END CODE ===">>
      [] key = "rewriter" -> <<"CONTENT:", "\n">> \o prompt
                                 \o <<"\n", "=== END CONTENT ===">>
      [] OTHER -> prompt

\* str(answer) with the code-fence marks (three backquotes, with or without
\* "python") removed, then .strip()
Cleaned(text) ==
    Strip(SelectSeq(text, LAMBDA tok : tok \notin {"<fence python>", "<fence>"}))

\* Mutant of HelperRun: the diagnostic of a failed turn has no brackets.
HelperRunBare(key, result) ==
    IF result.kind = "raise"
    THEN Str(<<HelperName(key), " ERROR: ", "e">>)
    ELSE IF key \in {"patcher", "rewriter"} THEN Str(Cleaned(result.text))
    ELSE Str(result.text)

\* What a helper's run(prompt) returns, from what generate_reply did: the
\* answer as a string (cleaned by helper_patcher and tool_rewriter), or
\* "[<module> ERROR: e]" when generate_reply raised.
HelperRun(key, result) ==
    IF result.kind = "raise"
    THEN Str(<<"[", HelperName(key), " ERROR: ", "e", "]">>)
    ELSE IF key \in {"patcher", "rewriter"} THEN Str(Cleaned(result.text))
    ELSE Str(result.text)

\* HelperRouter.run_<key>(prompt) around the helper's run: what the helper
\* returns, or "[<Name> error: e]" if the helper itself raises.
RunBackend(key, returned) ==
    IF returned.kind = "raise"
    THEN Str(<<"[", RouterName(key), " error: ", "e", "]">>)
    ELSE returned

\* What HelperRouter.run(backend, prompt) returns.
RouterValue(backend, llm) ==
    LET key == LowerName(backend)
    IN  IF key \notin TableKeys THEN Str(<<"[", "Unknown backend: ", key, "]">>)
        ELSE IF ~helper_router[key]
        THEN Str(<<"[", RouterName(key), " backend missing", "]">>)
        ELSE RunBackend(key, HelperRun(key, TurnResult(llm)))

\* HelperRouter.run(backend, prompt); llm is what the helper's llm adapter
\* answers during the turn.
RouterRun(backend, prompt, llm) ==
    LET key == LowerName(backend)
    IN  IF key \notin TableKeys
        THEN /\ reply' = [op |-> "run", backend |-> backend, reached |-> FALSE,
                          value |-> Str(<<"[", "Unknown backend: ", key, "]">>)]
             /\ UNCHANGED engineVars
        ELSE IF ~helper_router[key]
        THEN /\ reply' = [op |-> "run", backend |-> backend, reached |-> FALSE,
                          value |-> Str(<<"[", RouterName(key), " backend missing", "]">>)]
             /\ UNCHANGED engineVars
        ELSE /\ GenerateReply(HelperPrompt(key, prompt), llm)
             /\ UNCHANGED flags
             /\ reply' = [op |-> "run", backend |-> backend, reached |-> TRUE,
                          value |-> RunBackend(key, HelperRun(key, TurnResult(llm)))]

MaxRuns == 3

Backends == {"scriptor", "MASTER", "Micro", "patcher", "multimodel", "rewriter", "bogus", ""}

\* The turns the router is driven with: an answer in a code fence; a draft
\* call that returns None; a self-eval call that raises.
RouterScenarios ==
    { [user_text |-> <<"hello">>,
       llm |-> Llm(Str(<<"c">>), Str(<<"<fence python>", "\n", "ok", "\n", "<fence>">>),
                   Str(<<"fine">>), Str(<<"s">>), AllOk)],
      [user_text |-> <<"hello">>,
       llm |-> Llm(Str(<<"c">>), NoneValue, Str(<<"fine">>), Str(<<"s">>), AllOk)],
      [user_text |-> <<"so", " ", "sad">>,
       llm |-> Llm(Str(<<"c">>), Str(<<"ok">>), Raises, Str(<<"s">>), AllOk)] }

CallRouterRun ==
    /\ steps < MaxRuns
    /\ \E backend \in Backends, sc \in RouterScenarios :
          RouterRun(backend, sc.user_text, sc.llm)
    /\ steps' = steps + 1
    /\ UNCHANGED <<thinking_scriptor, thinking_master, scriptor_llm, master_llm,
                   helper_router, workers, after_queue, scriptor_text, master_text,
                   memory_log, cfg, sends>>
    /\ UNCHANGED code_text

\* A router that imported at most one helper module, whose ENGINE is the
\* engine of the model.
InitRouter ==
    /\ StoreInit(<<>>)
    /\ state = DefaultState
    /\ dialog_history = <<>>
    /\ flags = DefaultFlags
    /\ call = [op |-> "init", clean |-> TRUE, completed |-> 0]
    /\ steps = 0
    /\ LabIdle
    /\ scriptor_llm = FALSE
    /\ master_llm = FALSE
    /\ helper_router \in {NoHelpers} \cup {OnlyHelper(key) : key \in TableKeys}

SpecRouter == InitRouter /\ [][CallRouterRun]_vars

\* ---------------------------------------------------- HelperRouter: claims

Bracketed(text) == Len(text) >= 2 /\ text[1] = "[" /\ text[Len(text)] = "]"

\* C18: HelperRouter.run always returns a string, and for an unknown backend
\* name, a helper that failed to load, or an exception raised inside
\* generate_reply that string is one bracketed diagnostic.
C18_BoundaryReturnsString ==
    reply.op = "run" =>
        /\ reply.value.kind = "str"
        /\ (\/ LowerName(reply.backend) \notin TableKeys
            \/ ~helper_router[LowerName(reply.backend)]
            \/ reply.reached /\ call.result = Raises) =>
              Bracketed(reply.value.text)

\* C18 witness: a turn of the loaded helper raised inside generate_reply and
\* the router returned the helper's diagnostic.
C18_Witness ==
    /\ reply.op = "run" /\ reply.reached
    /\ call.result = Raises
    /\ reply.value = Str(<<"[", "helper_master", " ERROR: ", "e", "]">>)

\* ------------------------------------------------- RomanAILabMaster: chat send

Sides == {"scriptor", "master"}

\* Mutant of Thinking: one flag for both sides.
ThinkingEither(source) == thinking_scriptor \/ thinking_master

\* The thinking flag _send tests for the side.
Thinking(source) == IF source = "scriptor" THEN thinking_scriptor ELSE thinking_master

\* The pane of a side with more lines at its end, the other pane untouched.
PaneInsert(source, lines) ==
    /\ scriptor_text' = IF source = "scriptor" THEN scriptor_text \o lines
                        ELSE scriptor_text
    /\ master_text' = IF source = "scriptor" THEN master_text
                      ELSE master_text \o lines

\* The flag of a side set to v, the other flag untouched.
SetThinking(source, v) ==
    /\ thinking_scriptor' = IF source = "scriptor" THEN v ELSE thinking_scriptor
    /\ thinking_master' = IF source = "scriptor" THEN thinking_master ELSE v

\* source.upper()
Upper(source) == IF source = "scriptor" THEN "SCRIPTOR" ELSE "MASTER"

UserLine(text) == [tag |-> "user", text |-> <<"You: ">> \o text \o <<"\n">>]

StillThinking == [tag |-> "ai", text |-> <<"RomanAI: Still thinking...", "\n">>]

AiLine(answer) == [tag |-> "ai", text |-> <<"RomanAI: ">> \o answer \o <<"\n">>]

\* The thread target _send picks for the side and the backend chosen.
Target(source, backend_name) ==
    IF source = "scriptor"
    THEN IF backend_name = "Scriptor (GGUF)" THEN "_run_scriptor_gguf"
         ELSE "_run_helper_backend"
    ELSE IF backend_name = "Master (GGUF)" THEN "_run_master_gguf"
         ELSE "_run_helper_backend"

\* The router key _run_helper_backend picks.
HelperKey(source, backend_name) ==
    IF source = "scriptor"
    THEN CASE backend_name = "Micro Helper" -> "micro"
           [] backend_name = "Patcher Helper" -> "patcher"
           [] backend_name = "MultiModel Helper" -> "multimodel"
           [] backend_name = "Tool Rewriter" -> "rewriter"
           [] OTHER -> "scriptor"
    ELSE IF backend_name = "Master Helper" THEN "master" ELSE "multimodel"

MaxSends == 3

\* What can be in the entry of a side when _send runs, and the backends chosen.
EntryTexts == { <<>>, <<" ">>, <<" ", "hello">> }

BackendNames(source) ==
    IF source = "scriptor" THEN {"Scriptor (GGUF)", "Micro Helper", "MultiModel Helper"}
    ELSE {"Master (GGUF)", "Master Helper", "MultiModel Helper"}

\* The same and a name of no backend, as a saved configuration may hold one.
AnyBackendNames(source) == BackendNames(source) \cup {"bogus"}

\* _send(source): a blank entry returns at once; otherwise the text is shown
\* and logged and the backend saved, and then either the side is thinking and
\* the notice is shown, or the flag is set and a thread is started.
SendFrom(Names(_)) ==
    /\ steps < MaxSends
    /\ steps' = steps + 1
    /\ \E source \in Sides, entry \in EntryTexts :
        \E backend_name \in Names(source) :
          LET text == Strip(entry)
          IN  IF text = <<>>
              THEN UNCHANGED <<thinking_scriptor, thinking_master, workers,
                               scriptor_text, master_text, memory_log, cfg, sends>>
              ELSE /\ memory_log' = Append(memory_log,
                                           <<"[", Upper(source), " USER] ">> \o text)
                   /\ cfg' = [cfg EXCEPT ![source] = backend_name]
                   /\ sends' = Append(sends,
                         [id |-> steps, source |-> source, text |-> text,
                          was_thinking |-> IF source = "scriptor" THEN thinking_scriptor
                                           ELSE thinking_master,
                          other_thinking |-> IF source = "scriptor" THEN thinking_master
                                             ELSE thinking_scriptor,
                          started |-> ~Thinking(source)])
                   /\ IF Thinking(source)
                      THEN /\ PaneInsert(source, <<UserLine(text), StillThinking>>)
                           /\ UNCHANGED <<thinking_scriptor, thinking_master, workers>>
                      ELSE /\ PaneInsert(source, <<UserLine(text)>>)
                           /\ SetThinking(source, TRUE)
                           /\ workers' = workers \cup
                                 {[source |-> source,
                                   target |-> Target(source, backend_name),
                                   backend_name |-> backend_name,
                                   text |-> text, id |-> steps, phase |-> "start"]}
    /\ UNCHANGED <<engineVars, scriptor_llm, master_llm, helper_router, after_queue, reply>>
    /\ UNCHANGED code_text

Send == SendFrom(BackendNames)

\* What _call_llama can return: the cleaned completion, or "[LLM error: e]".
LlamaAnswers == { <<"ok">>, <<"[", "LLM error: ", "e", "]">> }

\* What _run_scriptor_gguf and _run_master_gguf can answer.
GgufAnswers(target) ==
    IF target = "_run_scriptor_gguf"
    THEN IF scriptor_llm THEN LlamaAnswers ELSE {<<"[No Scriptor GGUF model loaded.]">>}
    ELSE IF master_llm THEN LlamaAnswers ELSE {<<"[No Master GGUF model loaded.]">>}

\* Mutant of Post: a thread whose answer is a bracketed diagnostic ends
\* without posting _finish_turn.
PostOnSuccess(w, answer) ==
    /\ workers' = workers \ {w}
    /\ after_queue' = IF answer # <<>> /\ Head(answer) \in {"[", "[No Scriptor GGUF model loaded.]",
                                                            "[No Master GGUF model loaded.]"}
                       THEN after_queue
                       ELSE Append(after_queue,
                                   [source |-> w.source, answer |-> answer, id |-> w.id])

\* self.after(0, self._finish_turn, source, answer), the last statement of a thread.
Post(w, answer) ==
    /\ workers' = workers \ {w}
    /\ after_queue' = Append(after_queue,
                             [source |-> w.source, answer |-> answer, id |-> w.id])

\* The turns a helper is driven with from the panes.
SendScenarios ==
    { [llm |-> Llm(Str(<<"c">>), Str(<<"ok">>), Str(<<"fine">>), Str(<<"s">>), AllOk)],
      [llm |-> Llm(Str(<<"c">>), NoneValue, Str(<<"fine">>), Str(<<"s">>), AllOk)] }

\* A thread started by _send runs to its end: _run_scriptor_gguf,
\* _run_master_gguf or _run_helper_backend, each posting _finish_turn.
WorkerRun ==
    /\ \E w \in workers :
          /\ w.phase = "start" /\ w.source \in Sides
          /\ IF w.target = "_run_helper_backend"
             THEN \E sc \in SendScenarios :
                     /\ RouterRun(HelperKey(w.source, w.backend_name), w.text, sc.llm)
                     /\ Post(w, RouterValue(HelperKey(w.source, w.backend_name),
                                            sc.llm).text)
             ELSE \E answer \in GgufAnswers(w.target) :
                     /\ Post(w, answer)
                     /\ UNCHANGED <<engineVars, reply>>
    /\ UNCHANGED <<steps, thinking_scriptor, thinking_master, scriptor_llm, master_llm,
                   helper_router, scriptor_text, master_text, memory_log, cfg, sends>>
    /\ UNCHANGED code_text

\* The main loop runs the oldest posted callback: _finish_turn(source, answer).
FinishTurn ==
    /\ after_queue # <<>>
    /\ LET cb == Head(after_queue)
       IN  /\ PaneInsert(cb.source, <<AiLine(cb.answer)>>)
           /\ memory_log' = Append(memory_log,
                                   <<"[", Upper(cb.source), " AI] ">> \o cb.answer)
           /\ SetThinking(cb.source, FALSE)
    /\ after_queue' = Tail(after_queue)
    /\ UNCHANGED <<engineVars, steps, scriptor_llm, master_llm, helper_router, workers,
                   reply, cfg, sends>>
    /\ UNCHANGED code_text

\* The application started: one of the two GGUF models was found, and at most
\* one helper module, reachable from one side only, was imported.
InitSend ==
    /\ StoreInit(<<>>)
    /\ state = DefaultState
    /\ dialog_history = <<>>
    /\ flags = DefaultFlags
    /\ call = [op |-> "init", clean |-> TRUE, completed |-> 0]
    /\ steps = 0
    /\ LabIdle
    /\ scriptor_llm \in BOOLEAN
    /\ master_llm = ~scriptor_llm
    /\ helper_router \in {NoHelpers, OnlyHelper("micro"), OnlyHelper("master")}

NextSend == Send \/ WorkerRun \/ FinishTurn

SpecSend == InitSend /\ [][NextSend]_vars

\* The same with the scheduling the program runs under: a started thread runs
\* to its end once its backend call returns or raises, and the Tk main loop
\* runs the callbacks posted with after(0, ...). WorkerEnds is the step of
\* WorkerRun as workers shows it: the thread leaves the set of running threads.
MaxFairSends == 2

SendFair == steps < MaxFairSends /\ SendFrom(AnyBackendNames)

WorkerEnds ==
    \E w \in workers : w.phase = "start" /\ w.source \in Sides /\ workers' = workers \ {w}

NextSendFair == SendFair \/ WorkerRun \/ FinishTurn

SpecSendFair ==
    InitSend /\ [][NextSendFair]_vars
        /\ WF_workers(WorkerEnds) /\ WF_after_queue(FinishTurn)

\* ------------------------------------- one helper engine, several threads

\* The threads that call HelperRouter.run: the workers started by _send and
\* the request threads of the Flask server. A turn of generate_reply is taken
\* in three steps, between which other threads run: the prompt and the
\* llm_func calls (lines 429-480), the state and dialog update (483-484), the
\* memory writes and the summary hook (487-502).
MaxRequests == 2

\* _send while fewer than MaxRequests sends and requests have been made.
SendShared == steps < MaxRequests /\ Send

\* The router key a thread runs.
ThreadKey(w) ==
    IF w.source = "http" THEN LowerName(w.backend_name)
    ELSE HelperKey(w.source, w.backend_name)

\* A POST to /multimodel reaches _handle_backend on a thread of its own: a
\* blank prompt is answered with status 400, any other is handed to the router.
HttpRequest ==
    /\ steps < MaxRequests
    /\ steps' = steps + 1
    /\ \E prompt \in EntryTexts :
          IF Strip(prompt) = <<>>
          THEN /\ reply' = [op |-> "http", backend |-> "multimodel", reached |-> FALSE,
                            value |-> Str(<<"empty prompt">>)]
               /\ UNCHANGED workers
          ELSE /\ workers' = workers \cup
                     {[source |-> "http", target |-> "_handle_backend",
                       backend_name |-> "multimodel", text |-> prompt,
                       id |-> steps, phase |-> "start"]}
               /\ UNCHANGED reply
    /\ UNCHANGED <<engineVars, thinking_scriptor, thinking_master, scriptor_llm,
                   master_llm, helper_router, after_queue, scriptor_text, master_text,
                   memory_log, cfg, sends>>
    /\ UNCHANGED code_text

\* A thread enters generate_reply of the helper's ENGINE: the system prompt
\* is built and the llm_func calls are made, none of them failing.
EnterTurn ==
    /\ \E w \in workers, sc \in SendScenarios :
          /\ w.phase = "start"
          /\ w.target \in {"_run_helper_backend", "_handle_backend"}
          /\ ThreadKey(w) \in TableKeys /\ helper_router[ThreadKey(w)]
          /\ ~TurnRaises(sc.llm)
          /\ workers' = (workers \ {w}) \cup
                {[source |-> w.source, target |-> w.target,
                  backend_name |-> w.backend_name, text |-> w.text, id |-> w.id,
                  phase |-> "calls", llm |-> sc.llm,
                  user_text |-> HelperPrompt(ThreadKey(w), w.text),
                  final_answer |-> FinalOf(sc.llm)]}
    /\ UNCHANGED <<engineVars, steps, thinking_scriptor, thinking_master, scriptor_llm,
                   master_llm, helper_router, after_queue, scriptor_text, master_text,
                   reply, memory_log, cfg, sends>>
    /\ UNCHANGED code_text

\* Step 6 of the turn: _update_state_from_interaction and dialog_history.append.
UpdateTurn ==
    /\ \E w \in workers :
          /\ w.phase = "calls"
          /\ state' = UpdateStateFromInteraction(state, w.user_text, w.final_answer)
          /\ dialog_history' = DequeAppend(dialog_history,
                                           [user |-> w.user_text,
                                            assistant |-> w.final_answer], DialogMax)
          /\ workers' = (workers \ {w}) \cup {[w EXCEPT !.phase = "updated"]}
    /\ UNCHANGED <<file, short_term, mid_term, long_term, clock, call, routed, flags,
                   steps, thinking_scriptor, thinking_master, scriptor_llm, master_llm,
                   helper_router, after_queue, scriptor_text, master_text, reply,
                   memory_log, cfg, sends>>
    /\ UNCHANGED code_text

\* The end of the turn: the two memory.add calls, the summary hook on the
\* dialog history as it is by now, the return through the helper and the
\* router, and the thread's last statement.
StoreTurn ==
    /\ \E w \in workers :
          /\ w.phase = "updated"
          /\ LET importance == IF AnyIn(ImportantWords, w.user_text) THEN 80 ELSE 40
                 m1 == StoreAdd(Mem, "user", w.user_text, F(importance), w.llm.disk[1])
                 m2 == StoreAdd(m1, "assistant", w.final_answer,
                                F((importance * 8) \div 10), w.llm.disk[2])
                 summarize == Len(dialog_history) % 6 = 0
                 m3 == IF summarize THEN SummaryHook(m2, w.llm) ELSE m2
                 key == ThreadKey(w)
                 value == RunBackend(key, HelperRun(key, Str(w.final_answer)))
             IN  /\ SetMem(m3)
                 /\ call' = [op |-> "generate_reply", user_text |-> w.user_text,
                             llm |-> w.llm, result |-> Str(w.final_answer),
                             clean |-> call.clean /\ w.llm.disk[1] /\ w.llm.disk[2]
                                       /\ (m3 = m2 \/ w.llm.disk[3]),
                             completed |-> call.completed + 1, summarized |-> summarize,
                             trace |-> TurnTrace(w.llm, summarize, m3 # m2),
                             prompt |-> SystemPrompt(Mem, state),
                             messages |-> DraftMessages(flags, w.user_text, w.llm)]
                 /\ reply' = [op |-> "run", backend |-> key, reached |-> TRUE,
                              value |-> value]
                 /\ IF w.source = "http"
                    THEN workers' = workers \ {w} /\ UNCHANGED after_queue
                    ELSE /\ workers' = workers \ {w}
                         /\ after_queue' = Append(after_queue,
                                                  [source |-> w.source,
                                                   answer |-> value.text, id |-> w.id])
    /\ UNCHANGED <<state, dialog_history, flags, steps, thinking_scriptor,
                   thinking_master, scriptor_llm, master_llm, helper_router,
                   scriptor_text, master_text, memory_log, cfg, sends>>
    /\ UNCHANGED code_text

\* The application with helper_multimodel imported, the helper both panes
\* and the /multimodel route reach, and its ENGINE the engine of the model.
InitShared ==
    /\ StoreInit(<<>>)
    /\ state = DefaultState
    /\ dialog_history = <<>>
    /\ flags = DefaultFlags
    /\ call = [op |-> "init", clean |-> TRUE, completed |-> 0]
    /\ steps = 0
    /\ LabIdle
    /\ scriptor_llm = FALSE
    /\ master_llm = FALSE
    /\ helper_router = OnlyHelper("multimodel")

NextShared ==
    SendShared \/ HttpRequest \/ WorkerRun \/ EnterTurn \/ UpdateTurn \/ StoreTurn \/ FinishTurn

SpecShared == InitShared /\ [][NextShared]_vars

\* ------------------------------------------------ CodeFeeder, AutoPatcher

\* text.splitlines(), for texts whose only line break is the newline.
RECURSIVE SplitLines(_)
SplitLines(s) ==
    IF s = <<>> THEN <<>>
    ELSE LET i == Find(s, <<"\n">>)
         IN  IF i = 0 THEN <<s>>
             ELSE <<SubSeq(s, 1, i - 1)>> \o SplitLines(SubSeq(s, i + 1, Len(s)))

\* AutoPatcher._build_patch_prompt(code)
BuildPatchPrompt(code) ==
    <<"You are RomanAI Autonomous Code Patcher.", "\n",
      "=== ORIGINAL CODE START ===", "\n">> \o code
        \o <<"\n", "=== ORIGINAL CODE END ===", "\n", "\n",
             "Return ONLY the patched code. No comments. No markdown. No analysis.">>

\* AutoPatcher._validate_and_merge(original, patched): the text to put in the
\* editor, for the patching mode of the configuration.
ValidateAndMerge(original, patched, mode) ==
    LET cleaned == Cleaned(patched)
    IN  IF Strip(cleaned) = <<>> THEN original
        ELSE IF mode = "replace" THEN cleaned
        ELSE IF SplitLines(original) = SplitLines(cleaned) THEN original
        ELSE cleaned

MaxPatches == 2

\* The files load_file is given and the patching modes of the configuration.
FileTexts == { <<>>, <<" ", "\n">>, <<"x", "\n">>, <<"x", "\n", "z">> }

PatchModes == {"replace", "merge"}

\* The turns helper_patcher is driven with: a patch in a code fence; a code
\* fence with nothing in it; the code as it was; a draft call that fails.
PatchScenarios ==
    { [llm |-> Llm(Str(<<"c">>), Str(<<"<fence python>", "\n", "y", "\n", "<fence>">>),
                   Str(<<"fine">>), Str(<<"s">>), AllOk)],
      [llm |-> Llm(Str(<<"c">>), Str(<<"<fence>">>), Str(<<"fine">>), Str(<<"s">>), AllOk)],
      [llm |-> Llm(Str(<<"c">>), Str(<<"x">>), Str(<<"fine">>), Str(<<"s">>), AllOk)],
      [llm |-> Llm(Str(<<"c">>), NoneValue, Str(<<"fine">>), Str(<<"s">>), AllOk)] }

\* CodeFeeder.load_file with a file chosen and read: its text replaces the
\* editor's (the source path kept in code_buffer is not part of the model).
LoadFile ==
    /\ \E data \in FileTexts : code_text' = data
    /\ UNCHANGED <<engineVars, steps, thinking_scriptor, thinking_master, scriptor_llm,
                   master_llm, helper_router, workers, after_queue, scriptor_text,
                   master_text, reply, memory_log, cfg, sends>>

\* AutoPatcher.patch_current_buffer: nothing on a blank editor; otherwise
\* run_patcher on the patch prompt, nothing when it returns an empty string,
\* and else the editor's text replaced by what _validate_and_merge gives.
PatchCurrentBuffer ==
    /\ steps < MaxPatches
    /\ steps' = steps + 1
    /\ \E sc \in PatchScenarios, mode \in PatchModes :
          IF Strip(code_text) = <<>>
          THEN UNCHANGED <<code_text, engineVars, reply>>
          ELSE LET prompt == BuildPatchPrompt(code_text)
                   patched == RouterValue("patcher", sc.llm).text
               IN  /\ RouterRun("patcher", prompt, sc.llm)
                   /\ code_text' = IF patched = <<>> THEN code_text
                                    ELSE ValidateAndMerge(code_text, patched, mode)
    /\ UNCHANGED <<thinking_scriptor, thinking_master, scriptor_llm, master_llm,
                   helper_router, workers, after_queue, scriptor_text, master_text,
                   memory_log, cfg, sends>>

\* The application with or without helper_patcher imported.
InitPatch ==
    /\ StoreInit(<<>>)
    /\ state = DefaultState
    /\ dialog_history = <<>>
    /\ flags = DefaultFlags
    /\ call = [op |-> "init", clean |-> TRUE, completed |-> 0]
    /\ steps = 0
    /\ LabIdle
    /\ scriptor_llm = FALSE
    /\ master_llm = FALSE
    /\ helper_router \in {NoHelpers, OnlyHelper("patcher")}

NextPatch == LoadFile \/ PatchCurrentBuffer

SpecPatch == InitPatch /\ [][NextPatch]_vars

\* ---------------------------------------------------- lab_utils.chunk_text

\* text.rfind("\n", start, end) on a text of one-character elements, with
\* Python's 0-based positions: the last newline in [start, end), or -1.
RFind(text, start, end) ==
    LET hits == {i \in start..(end - 1) : text[i + 1] = "\n"}
    IN  IF hits = {} THEN -1 ELSE CHOOSE i \in hits : \A j \in hits : j <= i

\* Mutant of ChunkEnd: the cut is moved to end only when the newline found
\* lies before start, not when it is at start.
ChunkEndAtStart(text, start, max_chars) ==
    LET end == Min2(start + max_chars, Len(text))
        nl == RFind(text, start, end)
    IN  IF nl < start THEN end ELSE nl

\* Where the slice that begins at start is cut: at the last newline after
\* start within max_chars characters, else after max_chars characters or at
\* the end of the text.
ChunkEnd(text, start, max_chars) ==
    LET end == Min2(start + max_chars, Len(text))
        nl == RFind(text, start, end)
    IN  IF nl <= start THEN end ELSE nl

MaxTextLen == 4

MaxChunkChars == 3

ChunkAlphabet == {"a", " ", "\n"}

\* One pass of the while loop: the slice text[start:nl] is appended and start
\* moves to nl.
ChunkStep ==
    /\ call.op = "chunk_text" /\ ~call.done
    /\ call.start < Len(call.text)
    /\ LET nl == ChunkEnd(call.text, call.start, call.max_chars)
       IN  call' = [call EXCEPT !.chunks = Append(@, SubSeq(call.text, call.start + 1, nl)),
                                !.start = nl]
    /\ UNCHANGED <<file, short_term, mid_term, long_term, clock, state, dialog_history,
                   routed, flags, steps>>
    /\ UNCHANGED labVars

\* The loop ends and the slices that are not blank are returned.
ChunkReturn ==
    /\ call.op = "chunk_text" /\ ~call.done
    /\ ~(call.start < Len(call.text))
    /\ call' = [call EXCEPT !.done = TRUE,
                            !.result = SelectSeq(call.chunks, LAMBDA c : Strip(c) # <<>>)]
    /\ UNCHANGED <<file, short_term, mid_term, long_term, clock, state, dialog_history,
                   routed, flags, steps>>
    /\ UNCHANGED labVars

\* chunk_text(text, max_chars) is called with a text of at most MaxTextLen
\* characters and 1 <= max_chars <= MaxChunkChars.
InitChunk ==
    /\ StoreInit(<<>>)
    /\ state = DefaultState
    /\ dialog_history = <<>>
    /\ flags = DefaultFlags
    /\ \E text \in Seqs(ChunkAlphabet, MaxTextLen), max_chars \in 1..MaxChunkChars :
          call = [op |-> "chunk_text", text |-> text, max_chars |-> max_chars,
                  start |-> 0, chunks |-> <<>>, done |-> FALSE, result |-> <<>>]
    /\ steps = 0
    /\ LabInit

NextChunk == ChunkStep \/ ChunkReturn

\* The loop is run by one thread that keeps running.
SpecChunk == InitChunk /\ [][NextChunk]_vars /\ WF_call(NextChunk)

\* ------------------------------------------- RomanAILabMaster: claims

InFlight(side) == {w \in workers : w.source = side}

Posted(side) == {i \in 1..Len(after_queue) : after_queue[i].source = side}

Notices(pane) == {i \in 1..Len(pane) : pane[i] = StillThinking}

Rejected(side) == {i \in 1..Len(sends) : sends[i].source = side /\ ~sends[i].started}

\* C17: at most one turn is in flight per side; a send made while its side is
\* thinking starts no thread, shows the notice and its text is never processed;
\* a send is accepted or rejected by the flag of its own side alone.
C17_SendGate ==
    /\ \A side \in Sides :
          /\ Cardinality(InFlight(side)) + Cardinality(Posted(side)) <= 1
          /\ (InFlight(side) # {} \/ Posted(side) # {}) => Thinking(side)
    /\ \A i \in 1..Len(sends) : sends[i].started <=> ~sends[i].was_thinking
    /\ \A w \in workers : \E i \in 1..Len(sends) :
          sends[i].id = w.id /\ sends[i].started /\ sends[i].text = w.text
    /\ \A k \in 1..Len(after_queue) : \E i \in 1..Len(sends) :
          sends[i].id = after_queue[k].id /\ sends[i].started
    /\ Cardinality(Notices(scriptor_text)) = Cardinality(Rejected("scriptor"))
    /\ Cardinality(Notices(master_text)) = Cardinality(Rejected("master"))

\* C17 witness: a send on the scriptor side was rejected while its turn was in
\* flight, and a send on the master side made meanwhile was accepted.
C17_Witness ==
    /\ \E i \in 1..Len(sends) :
          sends[i].source = "scriptor" /\ ~sends[i].started
    /\ \E i \in 1..Len(sends) :
          sends[i].source = "master" /\ sends[i].started /\ sends[i].other_thinking
    /\ thinking_scriptor /\ thinking_master

\* The threads inside generate_reply of the one helper engine.
InGenerateReply == {w \in workers : w.phase \in {"calls", "updated"}}

\* C26: at most one generate_reply call executes at any time on one engine
\* instance, over all interleavings of scriptor-side workers, master-side
\* workers and HTTP request threads.
C26_OneTurnPerEngine == Cardinality(InGenerateReply) <= 1

\* The answers _finish_turn has appended to a pane.
Answers(pane) == {i \in 1..Len(pane) : pane[i].tag = "ai" /\ pane[i] # StillThinking}

Accepted(side) == {i \in 1..Len(sends) : sends[i].source = side /\ sends[i].started}

Pane(side) == IF side = "scriptor" THEN scriptor_text ELSE master_text

\* C27: every accepted send on a side is eventually followed by exactly one
\* _finish_turn for that side, which appends the answer and clears the side's
\* thinking flag, whatever the backend (no model loaded, helper missing, a
\* backend that raises): a thinking side eventually stops thinking, every
\* accepted send is in flight, posted or answered exactly once, and in the end
\* each side has as many answers as accepted sends.
C27_SendLiveness ==
    /\ \A side \in Sides : Thinking(side) ~> ~Thinking(side)
    /\ [](\A side \in Sides :
            Cardinality(Answers(Pane(side))) + Cardinality(InFlight(side))
                + Cardinality(Posted(side)) = Cardinality(Accepted(side)))
    /\ <>[](\A side \in Sides :
              /\ ~Thinking(side)
              /\ Cardinality(Answers(Pane(side))) = Cardinality(Accepted(side)))

\* C27 witness: both sides have finished a turn whose backend failed, the
\* scriptor side for want of a model and the master side on a helper that
\* raised, and neither is thinking.
C27_Witness ==
    /\ ~thinking_scriptor /\ ~thinking_master
    /\ AiLine(<<"[No Scriptor GGUF model loaded.]">>) \in Entries(scriptor_text)
    /\ AiLine(<<"[", "helper_master", " ERROR: ", "e", "]">>) \in Entries(master_text)

\* C28: patch_current_buffer leaves the editor buffer unchanged whenever
\* patching fails: the editor is blank, the patcher backend is missing, the
\* patcher backend raised, or the returned patch is empty after cleaning.
C28_FailedPatchKeepsBuffer ==
    [][ (/\ steps' = steps + 1
         /\ \/ TrimOf(code_text, Whitespace) = <<>>
            \/ ~helper_router["patcher"]
            \/ reply'.op = "run" /\ reply'.reached /\ call'.result = Raises
            \/ reply'.op = "run" /\ Cleaned(reply'.value.text) = <<>>) =>
          code_text' = code_text
      ]_vars

\* The concatenation of the slices in q.
RECURSIVE Concat(_)
Concat(q) == IF q = <<>> THEN <<>> ELSE Head(q) \o Concat(Tail(q))

\* C29: chunk_text(text, max_chars) terminates for every text and every
\* max_chars >= 1; the slices cut so far are non-empty, at most max_chars long
\* and, put end to end, are the text up to start; at the end they are the whole
\* text, and the list returned is the slices that are not blank, in order.
C29_ChunkText ==
    /\ <>(call.done)
    /\ [](/\ \A i \in 1..Len(call.chunks) :
                Len(call.chunks[i]) >= 1 /\ Len(call.chunks[i]) <= call.max_chars
          /\ Concat(call.chunks) = SubSeq(call.text, 1, call.start)
          /\ call.done =>
                /\ Concat(call.chunks) = call.text
                /\ call.result =
                      SelectSeq(call.chunks,
                                LAMBDA c : \E i \in 1..Len(c) : c[i] \notin Whitespace))

\* C29 witness: a call has returned fewer chunks than the slices it cut, one
\* of them a slice that begins with the newline the slice before ended at.
C29_Witness ==
    /\ call.done
    /\ Len(call.chunks) >= 3
    /\ Len(call.result) < Len(call.chunks)
    /\ call.result # <<>>
    /\ \E i \in 1..Len(call.result) : Head(call.result[i]) = "\n"

====
